---- MODULE Spec2Model ----
(***************************************************************************)
(* wb-mqtt-logs: the journald gateway of src/src/log_reader.cpp.           *)
(*                                                                         *)
(* Strings that the code parses or compares character by character are     *)
(* sequences of one-character strings; cursor tokens are TLA+ strings.     *)
(* A Json::Value object is a function whose DOMAIN is the set of its       *)
(* members, a Json array is a sequence.                                    *)
(***************************************************************************)
EXTENDS Integers, Sequences, FiniteSets, TLC

\* ------------------------------------------------------------------ bounds
\* number of records of the small journal
SmallLen == 5
\* number of records of the large journal (more than MAX_LOG_RECORDS of
\* them carry a message)
BigLen == 130
\* number of lines of the kernel ring buffer
DmesgLen == 3
\* largest number of lines of the boot listing
MaxBootLines == 3

\* ------------------------------------------------------- program constants
MAX_LOG_RECORDS == 100
LOG_EMERG == 0
LOG_ERR == 3
LOG_WARNING == 4
LOG_INFO == 6
LOG_DEBUG == 7
DMESG_SERVICE == <<"d", "m", "e", "s", "g">>
SERVICE_SUFFIX == <<".", "s", "e", "r", "v", "i", "c", "e">>

Procs == {"p1", "p2"}

\* ------------------------------------------------------------ Json helpers
\* Json::Value::get(key, default)
Get(obj, key, default) == IF key \in DOMAIN obj THEN obj[key] ELSE default

\* Json::Value::isMember(key)
IsMember(obj, key) == key \in DOMAIN obj

\* obj[key] = value
SetMember(obj, key, value) ==
    [k \in (DOMAIN obj) \cup {key} |-> IF k = key THEN value ELSE obj[k]]

\* Json::Value::removeMember(key)
RemoveMember(obj, key) == [k \in (DOMAIN obj) \ {key} |-> obj[k]]

\* an empty Json object
EmptyObject == [k \in {} |-> 0]

\* std::reverse
Reverse(s) == [i \in 1..Len(s) |-> s[Len(s) + 1 - i]]

Min(a, b) == IF a < b THEN a ELSE b

\* ----------------------------------------------------------- string helpers
\* icu::UnicodeString::foldCase, on the letters the model uses
FoldChar(c) ==
    CASE c = "E" -> "e" [] c = "R" -> "r" [] c = "O" -> "o"
      [] c = "W" -> "w" [] c = "A" -> "a" [] c = "N" -> "n"
      [] c = "I" -> "i" [] c = "G" -> "g" [] c = "D" -> "d"
      [] c = "B" -> "b" [] c = "U" -> "u" [] c = "K" -> "k"
      [] OTHER -> c

FoldCase(s) == [i \in 1..Len(s) |-> FoldChar(s[i])]

\* does pat occur in s at offset k (0-based)
OccursAt(s, pat, k) ==
    /\ k + Len(pat) <= Len(s)
    /\ \A i \in 1..Len(pat) : s[k + i] = pat[i]

\* icu::UnicodeString::indexOf(pattern) >= 0
Contains(s, pat) == \E k \in 0..Len(s) : OccursAt(s, pat, k)

\* WBMQTT::StringStartsWith
StringStartsWith(s, prefix) == OccursAt(s, prefix, 0)

\* WBMQTT::StringHasSuffix
StringHasSuffix(s, suffix) ==
    Len(suffix) <= Len(s) /\ OccursAt(s, suffix, Len(s) - Len(suffix))

\* atoi on a string of decimal digits
DigitValue(c) ==
    CASE c = "0" -> 0 [] c = "1" -> 1 [] c = "2" -> 2 [] c = "3" -> 3
      [] c = "4" -> 4 [] c = "5" -> 5 [] c = "6" -> 6 [] c = "7" -> 7
      [] c = "8" -> 8 [] c = "9" -> 9 [] OTHER -> -1

RECURSIVE AtoiFrom(_, _, _)
AtoiFrom(s, i, acc) ==
    IF i > Len(s) \/ DigitValue(s[i]) < 0 THEN acc
    ELSE AtoiFrom(s, i + 1, acc * 10 + DigitValue(s[i]))

Atoi(s) == AtoiFrom(s, 1, 0)

\* std::to_string of a severity level 0..7
LevelToString(l) ==
    CASE l = 0 -> <<"0">> [] l = 1 -> <<"1">> [] l = 2 -> <<"2">>
      [] l = 3 -> <<"3">> [] l = 4 -> <<"4">> [] l = 5 -> <<"5">>
      [] l = 6 -> <<"6">> [] l = 7 -> <<"7">>

\* --------------------------------------------------------- pattern matcher
\* faulty variant: the operands are folded whatever caseSensitive is
HasSubstring_AlwaysFolds(msg, pattern, caseSensitive) ==
    Contains(FoldCase(msg), FoldCase(pattern))

HasSubstring(msg, pattern, caseSensitive) ==
    IF caseSensitive THEN Contains(msg, pattern)
    ELSE Contains(FoldCase(msg), FoldCase(pattern))

\* The regular expressions of the model: literal characters and ".", which
\* matches any character; an unclosed "(" does not compile.
RegexCompiles(pattern) ==
    Cardinality({i \in 1..Len(pattern) : pattern[i] = "("})
        = Cardinality({i \in 1..Len(pattern) : pattern[i] = ")"})

RegexFindAt(s, pat, k, caseSensitive) ==
    /\ k + Len(pat) <= Len(s)
    /\ \A i \in 1..Len(pat) :
          \/ pat[i] = "."
          \/ s[k + i] = pat[i]
          \/ ~caseSensitive /\ FoldChar(s[k + i]) = FoldChar(pat[i])

\* "throw" when the RegexMatcher cannot be created, else m.find()
MatchesRegex(msg, pattern, caseSensitive) ==
    IF ~RegexCompiles(pattern) THEN "throw"
    ELSE IF \E k \in 0..Len(msg) : RegexFindAt(msg, pattern, k, caseSensitive)
         THEN "true" ELSE "false"

\* ------------------------------------------------------------- the journal
\* The log store is static during a run.  Record i (1 = oldest) has the
\* realtime timestamp i seconds, in microseconds, and the cursor token
\* CursorToken(i); "" is the empty cursor string.
CursorToken(i) == "c" \o ToString(i)

MsgError == <<"E", "R", "R", "O", "R", ":", " ", "d", "i", "s", "k">>
MsgPlain == <<"b", "o", "o", "t", " ", "o", "k">>
MsgWarning == <<"W", "A", "R", "N", "I", "N", "G", ":", " ", "d", "i", "s", "k">>
MsgLower == <<"d", "i", "s", "k", " ", "e", "r", "r", "o", "r">>
MsgDebug == <<"D", "E", "B", "U", "G", ":", " ", "x">>
UnitA == <<"a", ".", "s", "e", "r", "v", "i", "c", "e">>
UnitB == <<"b", ".", "s", "e", "r", "v", "i", "c", "e">>
UnitMount == <<"k", ".", "m", "o", "u", "n", "t">>
BootOld == <<"b", "1">>
BootNew == <<"b", "2">>

\* the fields of record i: a function from field names to values
RecordFields(i) ==
    LET msg == IF i % 10 = 6 THEN [MESSAGE |-> MsgWarning, PRIORITY |-> <<"6">>]
               ELSE IF i % 10 = 7 THEN [MESSAGE |-> MsgPlain, PRIORITY |-> <<"5">>]
               ELSE IF i % 10 = 8 THEN [MESSAGE |-> MsgDebug, PRIORITY |-> <<"3">>]
               ELSE CASE i % 5 = 1 -> [MESSAGE |-> MsgError, PRIORITY |-> <<"6">>]
                      [] i % 5 = 2 -> [MESSAGE |-> MsgPlain, PRIORITY |-> <<"6">>]
                      [] i % 5 = 3 -> [MESSAGE |-> MsgWarning, PRIORITY |-> <<"4">>]
                      [] i % 5 = 4 -> [PRIORITY |-> <<"5">>]
                      [] OTHER -> [MESSAGE |-> MsgLower]
        unit == CASE i % 10 = 9 -> EmptyObject
                  [] i % 3 = 0 -> [_SYSTEMD_UNIT |-> UnitA]
                  [] i % 3 = 1 -> [_SYSTEMD_UNIT |-> UnitB]
                  [] OTHER -> [_SYSTEMD_UNIT |-> UnitMount]
        boot == [_BOOT_ID |-> IF i <= 2 THEN BootOld ELSE BootNew]
    IN msg @@ unit @@ boot

JournalRecord(i) ==
    [fields |-> RecordFields(i), realtime |-> i * 1000000, cursor |-> CursorToken(i)]

JournalOfLen(n) == [i \in 1..n |-> JournalRecord(i)]

\* the index of the record a cursor token identifies (0 when there is none)
CursorIndex(store, c) ==
    IF \E i \in 1..Len(store) : store[i].cursor = c
    THEN CHOOSE i \in 1..Len(store) : store[i].cursor = c
    ELSE 0

\* --------------------------------------------------- sd_journal, the handle
\* A handle is [matches, loc, broken]: the match clauses added so far, the
\* read position and whether an iteration step has failed on it.  loc is
\*   [type |-> "head"]              after sd_journal_open,
\*   [type |-> "tail"]              after sd_journal_seek_tail,
\*   [type |-> "cursor", at |-> i]  after sd_journal_seek_cursor,
\*   [type |-> "time", at |-> usec] after sd_journal_seek_realtime_usec,
\*   [type |-> "entry", at |-> i]   when record i is the current entry.
OpenedHandle == [matches |-> {}, loc |-> [type |-> "head"], broken |-> FALSE]

\* sd_journal_add_match: clauses on one field are alternatives, clauses on
\* different fields must all hold
AddMatch(j, field, value) == [j EXCEPT !.matches = @ \cup {<<field, value>>}]

RecordPassesMatches(rec, matches) ==
    \A f \in {m[1] : m \in matches} :
        /\ f \in DOMAIN rec.fields
        /\ \E m \in matches : m[1] = f /\ m[2] = rec.fields[f]

\* the records a step from loc in direction dir may land on
StepCandidates(store, j, dir) ==
    {i \in 1..Len(store) :
        /\ RecordPassesMatches(store[i], j.matches)
        /\ CASE j.loc.type = "entry" ->
                  IF dir = "next" THEN i > j.loc.at ELSE i < j.loc.at
             [] j.loc.type = "cursor" ->
                  IF dir = "next" THEN i >= j.loc.at ELSE i <= j.loc.at
             [] j.loc.type = "time" ->
                  IF dir = "next" THEN store[i].realtime >= j.loc.at
                  ELSE store[i].realtime <= j.loc.at
             [] j.loc.type = "tail" -> dir = "previous"
             [] OTHER -> dir = "next"}

SetMax(S) == CHOOSE x \in S : \A y \in S : y <= x
SetMin(S) == CHOOSE x \in S : \A y \in S : x <= y

\* faulty variant: the store has no end, a step from the last record goes on
\* at the other end
Move_Circular(store, j, dir, fails) ==
    IF j.broken \/ fails THEN [r |-> -1, j |-> [j EXCEPT !.broken = TRUE]]
    ELSE LET c == StepCandidates(store, j, dir)
             all == {i \in 1..Len(store) : RecordPassesMatches(store[i], j.matches)}
         IN IF all = {} THEN [r |-> 0, j |-> j]
            ELSE [r |-> 1,
                  j |-> [j EXCEPT !.loc = [type |-> "entry",
                             at |-> IF c = {}
                                    THEN IF dir = "next" THEN SetMin(all) ELSE SetMax(all)
                                    ELSE IF dir = "next" THEN SetMin(c) ELSE SetMax(c)]]]

\* sd_journal_next / sd_journal_previous: [r, j], r > 0 when an entry became
\* current, 0 when there is none, < 0 on failure.  fails is the store's
\* choice to fail this step; a handle that failed once keeps failing.
Move(store, j, dir, fails) ==
    IF j.broken \/ fails THEN [r |-> -1, j |-> [j EXCEPT !.broken = TRUE]]
    ELSE LET c == StepCandidates(store, j, dir)
         IN IF c = {} THEN [r |-> 0, j |-> j]
            ELSE [r |-> 1,
                  j |-> [j EXCEPT !.loc = [type |-> "entry",
                             at |-> IF dir = "next" THEN SetMin(c) ELSE SetMax(c)]]]

\* sd_journal_get_data through GetData: the value, or "nullptr" when the
\* current entry has no such field
HasData(store, j, fieldName) ==
    /\ j.loc.type = "entry"
    /\ fieldName \in DOMAIN store[j.loc.at].fields
    /\ Len(store[j.loc.at].fields[fieldName]) > 0

GetData(store, j, fieldName) == store[j.loc.at].fields[fieldName]

\* ------------------------------------------------------------ query filter
\* TJournalctlFilterParams with its default member initialisers
DefaultFilter ==
    [Direction |-> "Default", Service |-> <<>>, MaxEntries |-> MAX_LOG_RECORDS,
     From |-> 0, Cursor |-> "", Pattern |-> <<>>, CaseSensitive |-> TRUE,
     RegEx |-> FALSE]

\* faulty variant: the limit of the request is not clamped
GetMaxLogsEntries_NoClamp(params) == Get(params, "limit", MAX_LOG_RECORDS)

GetMaxLogsEntries(params) == Min(MAX_LOG_RECORDS, Get(params, "limit", MAX_LOG_RECORDS))

\* faulty variant: the levels of the request add no clause
AddLevelMatches_None(j, levels, k) == j

\* the levels loop of SetFilter: one PRIORITY clause per valid level
RECURSIVE AddLevelMatches(_, _, _)
AddLevelMatches(j, levels, k) ==
    IF k > Len(levels) THEN j
    ELSE LET l == levels[k]
         IN IF l >= LOG_EMERG /\ l <= LOG_DEBUG
            THEN AddLevelMatches(AddMatch(j, "PRIORITY", LevelToString(l)), levels, k + 1)
            ELSE AddLevelMatches(j, levels, k + 1)

\* does SetFilter call sd_journal_add_match under SdThrowError
HasCheckedMatch(params) ==
    \/ Len(Get(params, "service", <<>>)) > 0
    \/ \E k \in 1..Len(Get(params, "levels", <<>>)) :
          /\ params["levels"][k] >= LOG_EMERG
          /\ params["levels"][k] <= LOG_DEBUG

\* SetFilter: [j, filter]
SetFilter(j, params) ==
    LET service == Get(params, "service", <<>>)
        j1 == IF Len(service) > 0 THEN AddMatch(j, "_SYSTEMD_UNIT", service) ELSE j
        boot == Get(params, "boot", <<>>)
        j2 == IF Len(boot) > 0 THEN AddMatch(j1, "_BOOT_ID", boot) ELSE j1
        j3 == AddLevelMatches(j2, Get(params, "levels", <<>>), 1)
        cursor == Get(params, "cursor", EmptyObject)
        directionString == Get(cursor, "direction", "")
    IN [j |-> j3,
        filter |->
          [Direction |-> IF ~IsMember(params, "cursor") THEN "Default"
                         ELSE IF directionString = "forward" THEN "Forward"
                         ELSE IF directionString = "backward" THEN "Backward"
                         ELSE "Default",
           Service |-> service,
           MaxEntries |-> GetMaxLogsEntries(params),
           From |-> IF IsMember(params, "time") THEN params["time"] * 1000000 ELSE 0,
           Cursor |-> IF IsMember(params, "cursor") THEN Get(cursor, "id", "") ELSE "",
           Pattern |-> Get(params, "pattern", <<>>),
           CaseSensitive |-> Get(params, "case-sensitive", TRUE),
           RegEx |-> Get(params, "regex", FALSE)]]

\* moveFn of MakeJouralctlRequest
MoveFn(filter) == IF filter.Direction = "Forward" THEN "next" ELSE "previous"

\* the seek of MakeJouralctlRequest, without the step past the cursor record
SeekPosition(store, j, filter) ==
    IF filter.Cursor # ""
    THEN [j EXCEPT !.loc = [type |-> "cursor", at |-> CursorIndex(store, filter.Cursor)]]
    ELSE IF filter.From > 0
         THEN [j EXCEPT !.loc = [type |-> "time", at |-> filter.From]]
         ELSE [j EXCEPT !.loc = [type |-> "tail"]]

\* faulty variant: the record the cursor points at is never passed over
PassesPointedRecord_Never(filter) == FALSE

\* is the record the cursor points at passed over before the loop
PassesPointedRecord(filter) == filter.Cursor # "" /\ filter.Direction # "Default"

\* ----------------------------------------------------------- entry building
LibWbMqttLogLevels ==
    << <<(<<"E", "R", "R", "O", "R", ":">>), LOG_ERR>>,
       <<(<<"W", "A", "R", "N", "I", "N", "G", ":">>), LOG_WARNING>>,
       <<(<<"D", "E", "B", "U", "G", ":">>), LOG_DEBUG>> >>

\* pattern test shared by AddMsg and GetDmesgLogs: "true", "false", "throw"
PatternTest(msg, pattern, caseSensitive, regEx) ==
    IF Len(pattern) = 0 THEN "true"
    ELSE IF regEx THEN MatchesRegex(msg, pattern, caseSensitive)
    ELSE IF HasSubstring(msg, pattern, caseSensitive) THEN "true" ELSE "false"

\* the level a message prefix stands for (std::any_of: the first that fits)
PrefixLevel(entry, d) ==
    LET hits == {k \in 1..Len(LibWbMqttLogLevels) :
                    StringStartsWith(d, LibWbMqttLogLevels[k][1])}
    IN IF hits = {} THEN entry
       ELSE SetMember(entry, "level", LibWbMqttLogLevels[SetMin(hits)][2])

\* AddMsg: [ret, entry], ret "true", "false" or "throw"
AddMsg(store, j, entry, pattern, caseSensitive, regEx) ==
    IF ~HasData(store, j, "MESSAGE") THEN [ret |-> "false", entry |-> entry]
    ELSE LET d == GetData(store, j, "MESSAGE")
             test == PatternTest(d, pattern, caseSensitive, regEx)
         IN IF test # "true" THEN [ret |-> test, entry |-> entry]
            ELSE LET e1 == SetMember(entry, "msg", d)
                 IN [ret |-> "true",
                     entry |-> IF ~IsMember(e1, "level") THEN PrefixLevel(e1, d) ELSE e1]

\* AddTimestamp: microseconds to milliseconds
AddTimestamp(store, j, entry) ==
    SetMember(entry, "time", store[j.loc.at].realtime \div 1000)

\* faulty variant: the raw priority is written whatever it is and whatever
\* the message prefix gave
AddPriority_Overrides(store, j, entry) ==
    IF ~HasData(store, j, "PRIORITY") THEN entry
    ELSE SetMember(entry, "level", Atoi(GetData(store, j, "PRIORITY")))

AddPriority(store, j, entry) ==
    IF ~HasData(store, j, "PRIORITY") THEN entry
    ELSE LET level == Atoi(GetData(store, j, "PRIORITY"))
         IN IF level # LOG_INFO /\ ~IsMember(entry, "level")
            THEN SetMember(entry, "level", level)
            ELSE entry

AddCursor(store, j, entry) == SetMember(entry, "cursor", store[j.loc.at].cursor)

\* faulty variant: the unit name is written as it is stored
AddService_KeepsSuffix(store, j, entry) ==
    IF ~HasData(store, j, "_SYSTEMD_UNIT") THEN entry
    ELSE SetMember(entry, "service", GetData(store, j, "_SYSTEMD_UNIT"))

AddService(store, j, entry) ==
    IF ~HasData(store, j, "_SYSTEMD_UNIT") THEN entry
    ELSE LET s == GetData(store, j, "_SYSTEMD_UNIT")
         IN IF StringHasSuffix(s, SERVICE_SUFFIX)
            THEN SetMember(entry, "service", SubSeq(s, 1, Len(s) - Len(SERVICE_SUFFIX)))
            ELSE SetMember(entry, "service", s)

\* faulty variant: every visited record counts toward the limit
MaxEntriesAfter_CountsAll(n, kept) == n - 1

\* "--filter.MaxEntries", inside the if of the loop body: only a kept record
\* counts
MaxEntriesAfter(n, kept) == IF kept THEN n - 1 ELSE n

\* The loop body of MakeJouralctlRequest up to res.append: the entry of the
\* current record.  "seq", the position of the record in the store, is not a
\* member of the Json entry: the model keeps it to state the order of a list.
MakeItem(store, j, filter) ==
    LET m == AddMsg(store, j, EmptyObject, filter.Pattern, filter.CaseSensitive, filter.RegEx)
        e1 == AddPriority(store, j, AddCursor(store, j, AddTimestamp(store, j, m.entry)))
        e2 == IF Len(filter.Service) = 0 THEN AddService(store, j, e1) ELSE e1
    IN [ret |-> m.ret, item |-> SetMember(e2, "seq", j.loc.at)]

\* faulty variant: the list of a forward scan is returned as accumulated
FinalOrder_NoReverse(filter, res) == res

\* the end of MakeJouralctlRequest: forward scans are reversed
FinalOrder(filter, res) == IF filter.Direction = "Forward" THEN Reverse(res) ELSE res

\* faulty variant: the trimming starts one entry too late
TrimCursors_OffByOne(res) ==
    IF Len(res) > 3
    THEN [i \in 1..Len(res) |->
            IF i = 1 \/ i = Len(res) THEN res[i] ELSE RemoveMember(res[i], "cursor")]
    ELSE res

\* GetJouralctlLogs: the cursor stays on the first and the last entry only
TrimCursors(res) ==
    IF Len(res) > 2
    THEN [i \in 1..Len(res) |->
            IF i = 1 \/ i = Len(res) THEN res[i] ELSE RemoveMember(res[i], "cursor")]
    ELSE res

\* ------------------------------------------------------ kernel ring buffer
\* line i of the output of the dmesg command
DmesgLine(i) ==
    CASE i % 3 = 1 -> <<"[", " ", "1", ".", "5", "]", " ", "u", "s", "b">>
      [] i % 3 = 2 -> <<"[", "2", "]", "d", "i", "s", "k">>
      [] OTHER -> <<"E", "R", "R", "O", "R", ":", " ", "x">>

DmesgOfLen(n) == [i \in 1..n |-> DmesgLine(i)]

\* s[i] of a std::string: the terminating zero at and past the end
CharAt(s, i) == IF i >= 1 /\ i <= Len(s) THEN s[i] ELSE "\\0"

RECURSIVE SkipSpaces(_, _)
SkipSpaces(s, i) == IF CharAt(s, i) = " " THEN SkipSpaces(s, i + 1) ELSE i

\* the end of the run of digits that starts at i
RECURSIVE DigitsEnd(_, _)
DigitsEnd(s, i) == IF DigitValue(CharAt(s, i)) >= 0 THEN DigitsEnd(s, i + 1) ELSE i

\* digit k (0-based) of the fraction that starts at position i, 0 past its end
FractionDigit(s, i, k) ==
    IF i + k < DigitsEnd(s, i) THEN DigitValue(s[i + k]) ELSE 0

\* static_cast<milliseconds::rep>(strtod(s + from - 1) * 1000)
StrtodMillis(s, from) ==
    LET b == SkipSpaces(s, from)
        e == DigitsEnd(s, b)
        whole == AtoiFrom(s, b, 0)
        f == e + 1
    IN IF CharAt(s, e) = "."
       THEN whole * 1000 + FractionDigit(s, f, 0) * 100
                + FractionDigit(s, f, 1) * 10 + FractionDigit(s, f, 2)
       ELSE whole * 1000

\* std::string::find(']'): the 0-based offset, -1 for npos
FindBracket(line) ==
    IF \E i \in 1..Len(line) : line[i] = "]"
    THEN SetMin({i \in 1..Len(line) : line[i] = "]"}) - 1
    ELSE -1

\* faulty variant: the level is derived from the message prefix, as for the
\* journal
ParseDmesgLog_WithLevel(line, bootTime) ==
    IF CharAt(line, 1) = "["
    THEN LET f == FindBracket(line)
             p0 == IF f = -1 THEN 0 ELSE f + 1
             p == IF CharAt(line, p0 + 1) = " " THEN p0 + 1 ELSE p0
         IN [time |-> bootTime + StrtodMillis(line, 2),
             msg |-> SubSeq(line, p + 1, Len(line))]
    ELSE PrefixLevel([msg |-> line], line)

\* ParseDmesgLog, bootTime in milliseconds
ParseDmesgLog(line, bootTime) ==
    IF CharAt(line, 1) = "["
    THEN LET f == FindBracket(line)
             p0 == IF f = -1 THEN 0 ELSE f + 1
             p == IF CharAt(line, p0 + 1) = " " THEN p0 + 1 ELSE p0
         IN [time |-> bootTime + StrtodMillis(line, 2),
             msg |-> SubSeq(line, p + 1, Len(line))]
    ELSE [msg |-> line]

\* GetDmesgLogs over the lines of the command: [ret, res], ret "throw" when
\* the pattern test throws
RECURSIVE DmesgScan(_, _, _, _, _)
DmesgScan(lines, k, params, bootTime, res) ==
    IF k > Len(lines) THEN [ret |-> "ok", res |-> res]
    ELSE LET entry == ParseDmesgLog(lines[k], bootTime)
             test == PatternTest(entry["msg"], Get(params, "pattern", <<>>),
                                 Get(params, "case-sensitive", TRUE),
                                 Get(params, "regex", FALSE))
         IN IF test = "throw" THEN [ret |-> "throw", res |-> <<>>]
            ELSE DmesgScan(lines, k + 1, params, bootTime,
                           IF test = "true" THEN Append(res, entry) ELSE res)

\* faulty variant: the list is cut to the limit of the request
GetDmesgLogs_Truncates(lines, params, bootTime) ==
    LET d == DmesgScan(lines, 1, params, bootTime, <<>>)
    IN [ret |-> d.ret,
        res |-> SubSeq(d.res, 1, Min(Len(d.res), GetMaxLogsEntries(params)))]

GetDmesgLogs(lines, params, bootTime) == DmesgScan(lines, 1, params, bootTime, <<>>)

\* GetLogs: is the request served from the kernel ring buffer
IsDmesgRequest(params) == Get(params, "service", <<>>) = DMESG_SERVICE

\* ------------------------------------------------ boot sessions, services
\* the three bytes of U+2014 EM DASH in UTF-8, one element each
EmDash == <<"0xE2", "0x80", "0x94">>

\* the dates journalctl prints, in the format "%a %Y-%m-%d %H:%M:%S UTC"
DateText(d) ==
    CASE d = 1 -> <<"T", "u", "e", " ", "2", "0", "2", "1", "-", "0", "4", "-", "0", "6", " ", "0", "7", ":", "3", "5", ":", "0", "1", " ", "U", "T", "C">>
      [] d = 2 -> <<"T", "u", "e", " ", "2", "0", "2", "1", "-", "0", "4", "-", "0", "6", " ", "0", "7", ":", "4", "4", ":", "1", "5", " ", "U", "T", "C">>
      [] OTHER -> <<"W", "e", "d", " ", "2", "0", "2", "1", "-", "0", "4", "-", "0", "7", " ", "1", "0", ":", "0", "0", ":", "0", "0", " ", "U", "T", "C">>

\* the boot index as journalctl prints it, right-aligned
IndexText(idx) ==
    CASE idx = 0 -> <<" ", "0">>
      [] idx = -1 -> <<"-", "1">>
      [] OTHER -> <<"-", "2">>

\* a line of "journalctl --utc --list-boots": index, boot id, first entry
\* and, when b.end > 0, the dash and the last entry
BootLineText(b) ==
    IndexText(b.idx) \o <<" ">> \o b.hash \o <<" ">> \o DateText(b.start)
        \o (IF b.end > 0 THEN EmDash \o DateText(b.end) ELSE <<>>)

\* the lines the boot listing is made of: the boot before the previous one,
\* the previous one, the current one, a line cut after its first date and a
\* header line
BootLines ==
    {[idx |-> -2, hash |-> <<"a", "1">>, start |-> 1, end |-> 2],
     [idx |-> -1, hash |-> <<"e", "9">>, start |-> 2, end |-> 3],
     [idx |-> 0, hash |-> <<"c", "3">>, start |-> 3, end |-> 3],
     [idx |-> -1, hash |-> <<"d", "4">>, start |-> 1, end |-> 0]}

HeaderLineText == <<"I", "D", "X", " ", "B", "O", "O", "T">>

BootTexts == {BootLineText(b) : b \in BootLines} \cup {HeaderLineText}

\* operator>>(int&): white space, an optional sign, digits: [ok, pos, val]
ReadInt(s, pos) ==
    LET b == SkipSpaces(s, pos)
        d == IF CharAt(s, b) \in {"-", "+"} THEN b + 1 ELSE b
        e == DigitsEnd(s, d)
    IN IF e = d THEN [ok |-> FALSE, pos |-> b, val |-> 0]
       ELSE [ok |-> TRUE, pos |-> e,
             val |-> IF CharAt(s, b) = "-" THEN 0 - AtoiFrom(s, d, 0) ELSE AtoiFrom(s, d, 0)]

RECURSIVE WordEnd(_, _)
WordEnd(s, i) == IF i > Len(s) \/ s[i] = " " THEN i ELSE WordEnd(s, i + 1)

\* operator>>(std::string&): white space, then the characters up to the next
\* white space: [ok, pos, val]
ReadWord(s, pos) ==
    LET b == SkipSpaces(s, pos)
        e == WordEnd(s, b)
    IN IF e = b THEN [ok |-> FALSE, pos |-> b, val |-> <<>>]
       ELSE [ok |-> TRUE, pos |-> e, val |-> SubSeq(s, b, e - 1)]

\* a conversion of std::get_time that reads up to n digits, the value being
\* in range: [ok, pos, val]
DigitsRead(s, i, e, range) ==
    IF e > i /\ Atoi(SubSeq(s, i, e - 1)) \in range
    THEN [ok |-> TRUE, pos |-> e, val |-> Atoi(SubSeq(s, i, e - 1))]
    ELSE [ok |-> FALSE, pos |-> e, val |-> 0]

ReadDigits(s, i, n, range) == DigitsRead(s, i, Min(DigitsEnd(s, i), i + n), range)

WeekDays ==
    {<<"M", "o", "n">>, <<"T", "u", "e">>, <<"W", "e", "d">>, <<"T", "h", "u">>,
     <<"F", "r", "i">>, <<"S", "a", "t">>, <<"S", "u", "n">>}

\* the format GetBootRec gives to std::get_time, "%a %Y-%m-%d %H:%M:%S UTC",
\* one item per conversion or character
TimeFormat ==
    <<"%a", " ", "%Y", "-", "%m", "-", "%d", " ", "%H", ":", "%M", ":", "%S",
      " ", "U", "T", "C">>

\* the member of std::tm a conversion stores into
TmField(item) ==
    CASE item = "%Y" -> "year"
      [] item = "%m" -> "mon"
      [] item = "%d" -> "mday"
      [] item = "%H" -> "hour"
      [] item = "%M" -> "min"
      [] item = "%S" -> "sec"
      [] OTHER -> "none"

\* one item of the format matched at pos: a conversion, white space (any
\* amount of it) or the character itself: [ok, pos, val]
MatchItem(s, pos, item) ==
    CASE item = "%a" ->
             [ok |-> pos + 2 <= Len(s) /\ SubSeq(s, pos, pos + 2) \in WeekDays,
              pos |-> pos + 3, val |-> 0]
      [] item = "%Y" -> ReadDigits(s, pos, 4, 0..9999)
      [] item = "%m" -> ReadDigits(s, pos, 2, 1..12)
      [] item = "%d" -> ReadDigits(s, pos, 2, 1..31)
      [] item = "%H" -> ReadDigits(s, pos, 2, 0..23)
      [] item = "%M" -> ReadDigits(s, pos, 2, 0..59)
      [] item = "%S" -> ReadDigits(s, pos, 2, 0..60)
      [] item = " " -> [ok |-> TRUE, pos |-> SkipSpaces(s, pos), val |-> 0]
      [] OTHER -> [ok |-> CharAt(s, pos) = item, pos |-> pos + 1, val |-> 0]

\* std::get_time item by item: [ok, pos, tm]
RECURSIVE TimeItems(_, _, _, _)
TimeItems(s, k, r, tm) ==
    IF ~r.ok THEN [ok |-> FALSE, pos |-> r.pos, tm |-> tm]
    ELSE IF k > Len(TimeFormat) THEN [ok |-> TRUE, pos |-> r.pos, tm |-> tm]
    ELSE TimeItems(s, k + 1, MatchItem(s, r.pos, TimeFormat[k]),
             IF k > 1 /\ TmField(TimeFormat[k - 1]) # "none"
             THEN [tm EXCEPT ![TmField(TimeFormat[k - 1])] = r.val] ELSE tm)

\* ss >> std::get_time(&t, "%a %Y-%m-%d %H:%M:%S UTC"), the sentry skipping
\* the white space before it: [ok, pos, tm]
GetTime(s, pos) ==
    TimeItems(s, 1, [ok |-> TRUE, pos |-> SkipSpaces(s, pos), val |-> 0],
        [year |-> 0, mon |-> 0, mday |-> 0, hour |-> 0, min |-> 0, sec |-> 0])

\* the days from 1970-01-01 to a date of the Gregorian calendar
DaysFromCivil(y, m, d) ==
    LET yy == IF m <= 2 THEN y - 1 ELSE y
        era == yy \div 400
        yoe == yy - era * 400
        doy == (153 * (IF m > 2 THEN m - 3 ELSE m + 9) + 2) \div 5 + d - 1
        doe == yoe * 365 + yoe \div 4 - yoe \div 100 + doy
    IN era * 146097 + doe - 719468

\* mktime, the local time zone of the process being UTC
Mktime(tm) ==
    DaysFromCivil(tm.year, tm.mon, tm.mday) * 86400
        + tm.hour * 3600 + tm.min * 60 + tm.sec

\* faulty variant: the end of the session is read from every line
ReadsEnd_Always(bootId) == TRUE

\* GetBootRec: "if (bootId != 0)", is the end of the session read
ReadsEnd(bootId) == bootId # 0

\* GetBootRec: [ok, rec]; ok is FALSE when the stream raises
\* std::ios_base::failure
GetBootRec(str) ==
    LET bootId == ReadInt(str, 1)
        hash == ReadWord(str, bootId.pos)
        t1 == GetTime(str, hash.pos)
        res == [hash |-> hash.val, start |-> Mktime(t1.tm)]
        afterDash == t1.pos + 3
        t2 == GetTime(str, afterDash)
    IN IF ~bootId.ok \/ ~hash.ok \/ ~t1.ok THEN [ok |-> FALSE, rec |-> EmptyObject]
       ELSE IF ~ReadsEnd(bootId.val) THEN [ok |-> TRUE, rec |-> res]
       ELSE IF afterDash > Len(str) + 1 \/ ~t2.ok THEN [ok |-> FALSE, rec |-> EmptyObject]
       ELSE [ok |-> TRUE, rec |-> SetMember(res, "end", Mktime(t2.tm))]

\* faulty variant: the loop ends at the first line that does not parse
RECURSIVE BootsScan_StopsAtBadLine(_, _, _)
BootsScan_StopsAtBadLine(boots, k, res) ==
    IF k > Len(boots) THEN res
    ELSE LET b == GetBootRec(boots[k])
         IN IF b.ok THEN BootsScan_StopsAtBadLine(boots, k + 1, Append(res, b.rec))
            ELSE res

\* the loop of GetBoots: a line that does not parse is logged and skipped
RECURSIVE BootsScan(_, _, _)
BootsScan(boots, k, res) ==
    IF k > Len(boots) THEN res
    ELSE LET b == GetBootRec(boots[k])
         IN BootsScan(boots, k + 1, IF b.ok THEN Append(res, b.rec) ELSE res)

\* GetBoots over the lines of the command: a Json value, null until the
\* first append
GetBoots(output) ==
    LET items == BootsScan(Reverse(output), 1, <<>>)
    IN [isNull |-> Len(items) = 0, items |-> items]

\* std::string::find: the 0-based offset of the first occurrence, -1 for npos
FindText(s, pat) ==
    IF Contains(s, pat) THEN SetMin({k \in 0..Len(s) : OccursAt(s, pat, k)}) ELSE -1

\* the lines of "systemctl list-units --type=service ..."
UnitLineA ==
    <<"a", ".", "s", "e", "r", "v", "i", "c", "e", " ", "l", "o", "a", "d", "e", "d">>
UnitLineB ==
    <<"b", ".", "s", "e", "r", "v", "i", "c", "e", " ", "l", "o", "a", "d", "e", "d">>
UnitHeaderLine == <<"U", "N", "I", "T", " ", "L", "O", "A", "D">>

\* the loop of GetServices
RECURSIVE ServicesScan(_, _, _)
ServicesScan(services, k, res) ==
    IF k > Len(services) THEN res
    ELSE LET p == FindText(services[k], SERVICE_SUFFIX)
         IN ServicesScan(services, k + 1,
                IF p # -1 THEN Append(res, SubSeq(services[k], 1, p + Len(SERVICE_SUFFIX)))
                ELSE res)

\* GetServices over the lines of the command
GetServices(output) == Append(ServicesScan(output, 1, <<>>), DMESG_SERVICE)

\* ---------------------------------------------------------------- requests
\* the Load requests the callers send
Opt(key, values) == {EmptyObject} \cup {key :> v : v \in values}

Combine(A, B) == {a @@ b : a \in A, b \in B}

PatDisk == <<"d", "i", "s", "k">>
PatError == <<"e", "r", "r", "o", "r">>
PatWild == <<"d", ".", "s", "k">>
PatUnclosed == <<"(", "d">>
PatNone == <<"z">>

CursorObjects(ids) ==
    {[id |-> c, direction |-> d] : c \in ids, d \in {"forward", "backward"}}
        \cup {[id |-> c] : c \in ids}

SmallCursorIds == {""} \cup {CursorToken(i) : i \in 1..SmallLen}

PatternOpts ==
    {EmptyObject,
     "pattern" :> PatDisk,
     ("pattern" :> PatError) @@ ("case-sensitive" :> FALSE),
     "pattern" :> PatError,
     ("pattern" :> PatWild) @@ ("regex" :> TRUE),
     ("pattern" :> <<>>) @@ ("regex" :> TRUE) @@ ("case-sensitive" :> FALSE),
     ("pattern" :> PatUnclosed) @@ ("regex" :> TRUE)}

PositionRequests ==
    Combine(Combine(Combine(Opt("cursor", CursorObjects(SmallCursorIds)),
                            Opt("limit", {0, 1, 2, 3, 500})),
                    Opt("time", {-1, 0, 3})),
            Opt("pattern", {PatDisk}))

FilterRequests ==
    Combine(Combine(Combine(Combine(PatternOpts, Opt("service", {<<>>, UnitA, DMESG_SERVICE})),
                            Opt("levels", {<<4, 6, 6, 9>>, <<3>>})),
                    Opt("boot", {BootNew})),
            Opt("limit", {2}))

\* a regular expression that does not compile, with a limit of no entries
RegexRequests ==
    Combine({("pattern" :> PatUnclosed) @@ ("regex" :> TRUE)}, Opt("limit", {0}))

Requests == PositionRequests \cup FilterRequests \cup RegexRequests

\* the requests sent against the large journal
BigRequests ==
    Combine(Opt("limit", {0, 2, 500}),
            Opt("cursor", {[id |-> CursorToken(1), direction |-> "forward"]}))

RequestsFor(store) == IF Len(store) > MAX_LOG_RECORDS THEN BigRequests ELSE Requests

\* the requests of the concurrent callers
ConcRequests ==
    Combine(Opt("limit", {2}),
            Opt("cursor", {[id |-> CursorToken(2), direction |-> "forward"]}))

\* -------------------------------------------------------------------- state
VARIABLES
    journalLen,     \* the number of records of the log store (static)
    dmesg,          \* the lines the dmesg command prints (static)
    BootTime,       \* TMQTTJournaldGateway::BootTime, in milliseconds
    CancelLoading,  \* TMQTTJournaldGateway::CancelLoading
    pc,             \* where each caller of Load is
    params,         \* the request of each Load call
    handle,         \* "none", "open" or "closed": the sd_journal of the call
    j,              \* the sd_journal handle of the call
    filter,         \* the TJournalctlFilterParams of the call
    r,              \* the result of the last moveFn of the call
    res,            \* the list the call accumulates
    result,         \* what the call returns: [status, value]
    exitBy,         \* which part of the loop condition ended the loop
    setupFault,     \* history: the call of the call's setup that failed
    readFault,      \* history: the read of the call's loop body that failed
    staleCancel,    \* history: the flag was set when the call reset it
    cancelInFlight, \* history: CancelLoad ran between the call and its end
    cancelDuring,   \* history: CancelLoad ran between the reset and the end
    cancelAt,       \* history: entries kept when a CancelLoad, not reset
                    \* since, found the call scanning; -1 when there is none
    gateway,        \* "starting", "serving" or "exited": main and its gateway
    bootsOutput,    \* the lines the boot listing printed to the constructor
    Boots,          \* TMQTTJournaldGateway::Boots
    listResult,     \* what the last List call returned: [status, value]
    listFault,      \* history: the failure of the command in that List call
    client,         \* the caller of Load: [mode, base], what it pages through
    pages           \* history: the lists that caller has received so far

\* the state Load and CancelLoad work on
loadVars == <<journalLen, dmesg, BootTime, CancelLoading, pc, params, handle, j, filter,
              r, res, result, exitBy, setupFault, readFault, staleCancel,
              cancelInFlight, cancelDuring, cancelAt>>

\* the state List works on
listVars == <<gateway, bootsOutput, Boots, listResult, listFault>>

\* the state of the caller that pages through the store
clientVars == <<client, pages>>

vars == <<loadVars, listVars, clientVars>>

NoResult == [status |-> "none", value |-> <<>>]

SmallJournal == JournalOfLen(SmallLen)
BigJournal == JournalOfLen(BigLen)

\* the log store of the run
journal == IF journalLen = BigLen THEN BigJournal ELSE SmallJournal

InitLoad(lens) ==
    /\ journalLen \in lens
    /\ dmesg = DmesgOfLen(DmesgLen)
    /\ BootTime = 5000
    /\ CancelLoading = FALSE
    /\ pc = [t \in Procs |-> "idle"]
    /\ params = [t \in Procs |-> EmptyObject]
    /\ handle = [t \in Procs |-> "none"]
    /\ j = [t \in Procs |-> OpenedHandle]
    /\ filter = [t \in Procs |-> DefaultFilter]
    /\ r = [t \in Procs |-> 0]
    /\ res = [t \in Procs |-> <<>>]
    /\ result = [t \in Procs |-> NoResult]
    /\ exitBy = [t \in Procs |-> "none"]
    /\ setupFault = [t \in Procs |-> "none"]
    /\ readFault = [t \in Procs |-> "none"]
    /\ staleCancel = [t \in Procs |-> FALSE]
    /\ cancelInFlight = [t \in Procs |-> FALSE]
    /\ cancelDuring = [t \in Procs |-> FALSE]
    /\ cancelAt = [t \in Procs |-> -1]

\* the boot listings the constructor may read: up to MaxBootLines lines, no
\* line twice
BootOutputs ==
    {s \in UNION {[1..m -> BootTexts] : m \in 0..MaxBootLines} :
        \A a, b \in 1..Len(s) : a # b => s[a] # s[b]}

\* a boot listing of the previous and the current boot
UsualBootsOutput ==
    <<BootLineText([idx |-> -1, hash |-> <<"e", "9">>, start |-> 2, end |-> 3]),
      BootLineText([idx |-> 0, hash |-> <<"c", "3">>, start |-> 3, end |-> 3])>>

\* the state after the constructor: Boots(GetBoots()); no List call has been
\* served
InitBoots(outputs) ==
    /\ gateway = "serving"
    /\ bootsOutput \in outputs
    /\ Boots = GetBoots(bootsOutput)
    /\ listResult = NoResult
    /\ listFault = "none"

\* a caller that sends unrelated requests
NoClient == [mode |-> "none", base |-> EmptyObject]

InitWith(lens) ==
    /\ InitLoad(lens)
    /\ InitBoots({UsualBootsOutput})
    /\ client = NoClient
    /\ pages = <<>>

\* the state after the constructor: the flag is false, no Load is running
Init == InitWith({SmallLen, BigLen})

InitConc == InitWith({SmallLen})

\* ------------------------------------------------------------------ actions
\* the transport invokes Load(p) on thread t
LoadCall(t, p) ==
    /\ UNCHANGED <<listVars, clientVars>>
    /\ pc[t] = "idle"
    /\ pc' = [pc EXCEPT ![t] = "called"]
    /\ params' = [params EXCEPT ![t] = p]
    /\ UNCHANGED <<journalLen, dmesg, BootTime, CancelLoading, handle, j, filter, r,
                   res, result, exitBy, setupFault, readFault, staleCancel,
                   cancelInFlight, cancelDuring, cancelAt>>

\* MakeJouralctlRequest from SetFilter to the first moveFn: [j, filter, r]
ScanSetup(store, p, skipFails, firstFails) ==
    LET sf == SetFilter(OpenedHandle, p)
        j1 == SeekPosition(store, sf.j, sf.filter)
        j2 == IF PassesPointedRecord(sf.filter)
              THEN Move(store, j1, MoveFn(sf.filter), skipFails).j
              ELSE j1
        m == Move(store, j2, MoveFn(sf.filter), firstFails)
    IN [j |-> m.j, filter |-> sf.filter, r |-> m.r]

\* faulty variant: Load leaves the flag as it finds it
FlagAtLoadStart_Kept(flag) == flag

\* faulty variant: the handle is not closed
HandleAtScopeExit_Leak(h) == h

\* Load: "CancelLoading = false" on entry, whatever the flag was
FlagAtLoadStart(flag) == FALSE

\* the unique_ptr of MakeJouralctlRequest closes the handle when the scope
\* is left, by return or by exception
HandleAtScopeExit(h) == "closed"

\* faulty variant: all calls work on the handle of the first thread
HandleUsedBy_Shared(t) == "p1"

\* "sd_journal* j" is a local of MakeJouralctlRequest: the call on thread t
\* works on the handle it opened itself
HandleUsedBy(t) == t

\* the result of a call of the sd_journal library
SdResult(failed) == IF failed THEN -1 ELSE 0

\* faulty variant: a negative result is not raised
SdThrowError_Ignores(rv) == FALSE

\* SdThrowError: does the result raise std::runtime_error
SdThrowError(rv) == rv < 0

\* Load: CancelLoading = false, then GetLogs.  The ring-buffer path runs to
\* its end here (it shares nothing with other threads); the journal path
\* opens the handle, sets the filter, seeks and makes the first step.
\* fault is the failure the log store or the command raises, if any.
LoadSetup(t, fault, skipFails, firstFails) ==
    /\ UNCHANGED <<listVars, clientVars>>
    /\ pc[t] = "called"
    /\ CancelLoading' = FlagAtLoadStart(CancelLoading)
    /\ staleCancel' = [staleCancel EXCEPT ![t] = CancelLoading]
    /\ cancelAt' = [u \in Procs |-> -1]
    /\ setupFault' = [setupFault EXCEPT ![t] = fault]
    /\ IF IsDmesgRequest(params[t])
       THEN LET d == GetDmesgLogs(dmesg, params[t], BootTime)
            IN /\ fault \in {"none", "exec"}
               /\ ~skipFails /\ ~firstFails
               /\ IF fault = "exec" \/ d.ret = "throw"
                  THEN /\ pc' = [pc EXCEPT ![t] = "failed"]
                       /\ result' = [result EXCEPT ![t] = [status |-> "error", value |-> <<>>]]
                  ELSE /\ pc' = [pc EXCEPT ![t] = "done"]
                       /\ result' = [result EXCEPT ![t] = [status |-> "ok", value |-> d.res]]
               /\ UNCHANGED <<handle, j, filter, r>>
       ELSE IF ~SdThrowError(SdResult(fault # "none"))
       THEN LET s == ScanSetup(journal, params[t], skipFails, firstFails)
            IN /\ fault \in {"none", "open", "match", "seek"}
               /\ skipFails => PassesPointedRecord(s.filter)
               /\ firstFails => ~skipFails
               /\ pc' = [pc EXCEPT ![t] = "check"]
               /\ handle' = [handle EXCEPT ![t] = "open"]
               /\ j' = [j EXCEPT ![HandleUsedBy(t)] = s.j]
               /\ filter' = [filter EXCEPT ![t] = s.filter]
               /\ r' = [r EXCEPT ![t] = s.r]
               /\ UNCHANGED result
       ELSE /\ fault \in {"open", "match", "seek"}
            /\ fault = "match" => HasCheckedMatch(params[t])
            /\ ~skipFails /\ ~firstFails
            /\ pc' = [pc EXCEPT ![t] = "failed"]
            /\ handle' = [handle EXCEPT ![t] =
                   IF fault = "open" THEN "none" ELSE HandleAtScopeExit("open")]
            /\ result' = [result EXCEPT ![t] = [status |-> "error", value |-> <<>>]]
            /\ UNCHANGED <<j, filter, r>>
    /\ UNCHANGED <<journalLen, dmesg, BootTime, params, res, exitBy, readFault,
                   cancelInFlight, cancelDuring>>

\* faulty variant: the loop condition does not read the flag
LoopExit_IgnoresCancel(rv, f, cancel) ==
    IF rv < 0 THEN "failure"
    ELSE IF rv = 0 THEN "exhausted"
    ELSE IF f.MaxEntries = 0 THEN "limit"
    ELSE "none"

\* faulty variant: the loop goes on when the step has failed
LoopExit_FailureContinues(rv, f, cancel) ==
    IF rv = 0 THEN "exhausted"
    ELSE IF f.MaxEntries = 0 THEN "limit"
    ELSE IF cancel THEN "cancel"
    ELSE "none"

\* which part of "r > 0 && filter.MaxEntries && !cancelLoading" is false
LoopExit(rv, f, cancel) ==
    IF rv < 0 THEN "failure"
    ELSE IF rv = 0 THEN "exhausted"
    ELSE IF f.MaxEntries = 0 THEN "limit"
    ELSE IF cancel THEN "cancel"
    ELSE "none"

\* the loop condition; when it is false the rest of MakeJouralctlRequest and
\* of GetJouralctlLogs runs: the order is fixed, the cursors are trimmed and
\* the handle is closed
ScanCheck(t) ==
    /\ UNCHANGED <<listVars, clientVars>>
    /\ pc[t] = "check"
    /\ LET e == LoopExit(r[t], filter[t], CancelLoading)
       IN IF e = "none"
          THEN /\ pc' = [pc EXCEPT ![t] = "body"]
               /\ UNCHANGED <<handle, result, exitBy>>
          ELSE /\ pc' = [pc EXCEPT ![t] = "done"]
               /\ handle' = [handle EXCEPT ![t] = HandleAtScopeExit("open")]
               /\ exitBy' = [exitBy EXCEPT ![t] = e]
               /\ result' = [result EXCEPT ![t] =
                      [status |-> "ok", value |-> TrimCursors(FinalOrder(filter[t], res[t]))]]
    /\ UNCHANGED <<journalLen, dmesg, BootTime, CancelLoading, params, j, filter, r, res,
                   setupFault, readFault, staleCancel, cancelInFlight, cancelDuring,
                   cancelAt>>

\* the calls of the loop body a kept record's reads may fail in
ReadFaults == {"none", "timestamp", "cursor"}

\* the loop body: the current record becomes an entry when AddMsg keeps it,
\* then moveFn steps on.  readFails: sd_journal_get_realtime_usec
\* ("timestamp") or sd_journal_get_cursor ("cursor") fails for the kept
\* record; stepFails: the step fails.  An exception of AddMsg, AddTimestamp
\* or AddCursor leaves MakeJouralctlRequest, Load logs it and throws it on.
ScanBody(t, readFails, stepFails) ==
    /\ UNCHANGED <<listVars, clientVars>>
    /\ pc[t] = "body"
    /\ LET it == MakeItem(journal, j[HandleUsedBy(t)], filter[t])
           m == Move(journal, j[HandleUsedBy(t)], MoveFn(filter[t]), stepFails)
       IN /\ readFails # "none" => it.ret = "true"
          /\ readFault' = [readFault EXCEPT ![t] = readFails]
          /\ IF it.ret = "throw" \/ SdThrowError(SdResult(readFails # "none"))
             THEN /\ ~stepFails
                  /\ pc' = [pc EXCEPT ![t] = "failed"]
                  /\ handle' = [handle EXCEPT ![t] = HandleAtScopeExit("open")]
                  /\ result' = [result EXCEPT ![t] = [status |-> "error", value |-> <<>>]]
                  /\ UNCHANGED <<j, filter, r, res>>
             ELSE /\ pc' = [pc EXCEPT ![t] = "check"]
                  /\ res' = [res EXCEPT ![t] =
                                IF it.ret = "true" THEN Append(@, it.item) ELSE @]
                  /\ filter' = [filter EXCEPT ![t].MaxEntries =
                                   MaxEntriesAfter(@, it.ret = "true")]
                  /\ j' = [j EXCEPT ![HandleUsedBy(t)] = m.j]
                  /\ r' = [r EXCEPT ![t] = m.r]
                  /\ UNCHANGED <<handle, result>>
    /\ UNCHANGED <<journalLen, dmesg, BootTime, CancelLoading, params, exitBy,
                   setupFault, staleCancel, cancelInFlight, cancelDuring, cancelAt>>

\* Load returns to the transport (or its exception reaches it); a caller
\* that pages through the store keeps the list
LoadReturn(t) ==
    /\ UNCHANGED listVars
    /\ pc[t] \in {"done", "failed"}
    /\ pages' = IF client.mode = "none" THEN pages ELSE Append(pages, result[t].value)
    /\ UNCHANGED client
    /\ pc' = [pc EXCEPT ![t] = "idle"]
    /\ params' = [params EXCEPT ![t] = EmptyObject]
    /\ handle' = [handle EXCEPT ![t] = "none"]
    /\ j' = [j EXCEPT ![t] = OpenedHandle]
    /\ filter' = [filter EXCEPT ![t] = DefaultFilter]
    /\ r' = [r EXCEPT ![t] = 0]
    /\ res' = [res EXCEPT ![t] = <<>>]
    /\ result' = [result EXCEPT ![t] = NoResult]
    /\ exitBy' = [exitBy EXCEPT ![t] = "none"]
    /\ setupFault' = [setupFault EXCEPT ![t] = "none"]
    /\ readFault' = [readFault EXCEPT ![t] = "none"]
    /\ staleCancel' = [staleCancel EXCEPT ![t] = FALSE]
    /\ cancelInFlight' = [cancelInFlight EXCEPT ![t] = FALSE]
    /\ cancelDuring' = [cancelDuring EXCEPT ![t] = FALSE]
    /\ cancelAt' = [cancelAt EXCEPT ![t] = -1]
    /\ UNCHANGED <<journalLen, dmesg, BootTime, CancelLoading>>

\* CancelLoad: CancelLoading = true
CancelLoad ==
    /\ UNCHANGED <<listVars, clientVars>>
    /\ CancelLoading' = TRUE
    /\ cancelInFlight' = [t \in Procs |->
           cancelInFlight[t] \/ pc[t] \in {"called", "check", "body"}]
    /\ cancelDuring' = [t \in Procs |-> cancelDuring[t] \/ pc[t] \in {"check", "body"}]
    /\ cancelAt' = [t \in Procs |->
           IF pc[t] \in {"check", "body"} /\ cancelAt[t] < 0 THEN Len(res[t])
           ELSE cancelAt[t]]
    /\ UNCHANGED <<journalLen, dmesg, BootTime, pc, params, handle, j, filter, r, res,
                   result, exitBy, setupFault, readFault, staleCancel>>

\* the outputs of the systemctl command
ServiceOutputs == {<<>>, <<UnitLineA>>, <<UnitHeaderLine, UnitLineA, UnitLineB>>}

\* List: the cached boots, then the services; an exception of GetServices
\* (the pipe to the command cannot be opened) is logged and the response
\* built so far is returned
List(fault, output) ==
    /\ gateway = "serving"
    /\ LET res0 == SetMember(EmptyObject, "boots", Boots)
       IN listResult' =
              [status |-> "ok",
               value |-> IF fault = "exec" THEN res0
                         ELSE SetMember(res0, "services", GetServices(output))]
    /\ listFault' = fault
    /\ UNCHANGED <<gateway, bootsOutput, Boots>>
    /\ UNCHANGED <<loadVars, clientVars>>

\* main constructs the gateway: Boots(GetBoots()).  When the pipe to the
\* boot listing cannot be opened the constructor throws and main returns 2.
Construct(fault, output) ==
    /\ gateway = "starting"
    /\ IF fault = "exec"
       THEN /\ gateway' = "exited"
            /\ UNCHANGED <<bootsOutput, Boots>>
       ELSE /\ gateway' = "serving"
            /\ bootsOutput' = output
            /\ Boots' = GetBoots(output)
    /\ UNCHANGED <<listResult, listFault>>
    /\ UNCHANGED <<loadVars, clientVars>>

Faults == {"none", "exec", "open", "match", "seek"}

\* the reads that may fail against a log store whose calls may fail
ReadFaultsOf(stepFailures) == IF TRUE \in stepFailures THEN ReadFaults ELSE {"none"}

\* what one thread of the transport does with the requests reqs, against a
\* log store that may raise the faults and fail the steps it is given
ProcNext(t, reqs, faults, stepFailures) ==
    \/ pc[t] = "idle" /\ \E p \in reqs : LoadCall(t, p)
    \/ \E fault \in faults, skipFails, firstFails \in stepFailures :
          LoadSetup(t, fault, skipFails, firstFails)
    \/ ScanCheck(t)
    \/ \E readFails \in ReadFaultsOf(stepFailures), stepFails \in stepFailures :
          ScanBody(t, readFails, stepFails)
    \/ LoadReturn(t)

\* one thread serves the Load requests, another one CancelLoad
Next ==
    (\E t \in {"p1"} : ProcNext(t, RequestsFor(journal), Faults, BOOLEAN)) \/ CancelLoad

Spec == Init /\ [][Next]_vars

\* the requests of the runs in which the Load thread is never stopped for
\* ever: tail and forward scans with a limit, a service filter, a regular
\* expression that does not compile and a pattern no record passes
FairRequests ==
    {"limit" :> 2,
     ("limit" :> 2) @@ ("cursor" :> [id |-> CursorToken(2), direction |-> "forward"]),
     ("pattern" :> PatUnclosed) @@ ("regex" :> TRUE),
     ("service" :> UnitA) @@ ("limit" :> 2),
     "pattern" :> PatNone}

NextFair == (\E t \in {"p1"} : ProcNext(t, FairRequests, Faults, BOOLEAN)) \/ CancelLoad

\* the thread that runs a scan keeps running: the loop condition and the
\* loop body are not postponed for ever
SpecFair ==
    /\ InitConc
    /\ [][NextFair]_vars
    /\ WF_vars(ScanCheck("p1"))
    /\ WF_vars(\E readFails \in ReadFaults, stepFails \in BOOLEAN :
                  ScanBody("p1", readFails, stepFails))

\* main before the gateway is constructed
InitList ==
    /\ InitLoad({SmallLen})
    /\ gateway = "starting"
    /\ bootsOutput = <<>>
    /\ Boots = [isNull |-> TRUE, items |-> <<>>]
    /\ listResult = NoResult
    /\ listFault = "none"
    /\ client = NoClient
    /\ pages = <<>>

\* the construction of the gateway over any of the boot listings, then its
\* List calls
NextList ==
    \/ \E fault \in {"none", "exec"}, output \in BootOutputs : Construct(fault, output)
    \/ \E fault \in {"none", "exec"}, output \in ServiceOutputs : List(fault, output)

SpecList == InitList /\ [][NextList]_vars

\* the fixed filters and page sizes of a caller that pages through the store
PageFilters ==
    {EmptyObject, "pattern" :> PatDisk, "service" :> UnitB, "levels" :> <<4, 6, 6, 9>>,
     "boot" :> BootNew}

PageBases == Combine(PageFilters, Opt("limit", {0, 1, 2, 3}))

\* against the large journal: the page size is clamped to MAX_LOG_RECORDS
BigPageBases == {"limit" :> 500}

PageBasesFor(store) == IF Len(store) > MAX_LOG_RECORDS THEN BigPageBases ELSE PageBases

\* the request of the next page: the fixed filter with the cursor of an entry
\* of a page received before
CursorRequest(base, entry, direction) ==
    ("cursor" :> [id |-> entry["cursor"], direction |-> direction]) @@ base

\* what the caller sends next, if anything.  "backward": a tail Load, then
\* backward from the last entry of the previous page until a page is empty.
\* "roundtrip": a tail Load, backward from its last entry, then forward, with
\* the size of the first page as limit, from the first and from the last
\* entry of the second page.
NextPageRequests ==
    LET n == Len(pages)
    IN IF n = 0 THEN {client.base}
       ELSE IF \E k \in 1..n : Len(pages[k]) = 0 THEN {}
       ELSE CASE client.mode = "backward" ->
                     {CursorRequest(client.base, pages[n][Len(pages[n])], "backward")}
              [] client.mode = "roundtrip" /\ n = 1 ->
                     {CursorRequest(client.base, pages[1][Len(pages[1])], "backward")}
              [] client.mode = "roundtrip" /\ n = 2 ->
                     {("limit" :> Len(pages[1]))
                         @@ CursorRequest(client.base, pages[2][1], "forward")}
              [] client.mode = "roundtrip" /\ n = 3 ->
                     {("limit" :> Len(pages[1]))
                         @@ CursorRequest(client.base, pages[2][Len(pages[2])], "forward")}
              [] OTHER -> {}

InitPages ==
    /\ InitLoad({SmallLen, BigLen})
    /\ InitBoots({UsualBootsOutput})
    /\ client \in {[mode |-> m, base |-> b] :
                       m \in {"backward", "roundtrip"}, b \in PageBasesFor(journal)}
    /\ pages = <<>>

\* one caller pages through a store that works; nobody cancels
NextPages == \E t \in {"p1"} : ProcNext(t, NextPageRequests, {"none"}, {FALSE})

SpecPages == InitPages /\ [][NextPages]_vars

\* Load is invoked from several threads at once, on a log store that works
NextConc == (\E t \in Procs : ProcNext(t, ConcRequests, {"none"}, {FALSE})) \/ CancelLoad

SpecConc == InitConc /\ [][NextConc]_vars

\* ------------------------------------------------- reference definitions
\* a Load of the journal that has returned a list
JournalDone(t) == pc[t] = "done" /\ ~IsDmesgRequest(params[t])

\* the store positions of the entries of a list
Seqs(list) == [i \in 1..Len(list) |-> list[i]["seq"]]

\* the loop of MakeJouralctlRequest run to its end with nothing failing and
\* the flag never set
RECURSIVE ScanLoop(_, _, _, _, _)
ScanLoop(store, jj, f, rv, acc) ==
    IF rv <= 0 \/ f.MaxEntries = 0 THEN [status |-> "ok", value |-> acc]
    ELSE LET it == MakeItem(store, jj, f)
             m == Move(store, jj, MoveFn(f), FALSE)
         IN IF it.ret = "throw" THEN [status |-> "error", value |-> <<>>]
            ELSE IF it.ret = "true"
            THEN ScanLoop(store, m.j, [f EXCEPT !.MaxEntries = MaxEntriesAfter(@, TRUE)],
                          m.r, Append(acc, it.item))
            ELSE ScanLoop(store, m.j, [f EXCEPT !.MaxEntries = MaxEntriesAfter(@, FALSE)],
                          m.r, acc)

\* what Load(p) returns from the journal when nothing disturbs it
UndisturbedLoad(store, p) ==
    LET s == ScanSetup(store, p, FALSE, FALSE)
        l == ScanLoop(store, s.j, s.filter, s.r, <<>>)
    IN IF l.status = "ok"
       THEN [status |-> "ok", value |-> TrimCursors(FinalOrder(s.filter, l.value))]
       ELSE l

\* the levels of a request that are severity levels
ValidLevels(p) ==
    {Get(p, "levels", <<>>)[k] : k \in 1..Len(Get(p, "levels", <<>>))}
        \cap (LOG_EMERG..LOG_DEBUG)

\* record rec passes the service, boot and level filters of request p and
\* its message passes the pattern
RecordKept(rec, p) ==
    /\ Len(Get(p, "service", <<>>)) > 0 =>
          /\ "_SYSTEMD_UNIT" \in DOMAIN rec.fields
          /\ rec.fields["_SYSTEMD_UNIT"] = p["service"]
    /\ Len(Get(p, "boot", <<>>)) > 0 =>
          /\ "_BOOT_ID" \in DOMAIN rec.fields
          /\ rec.fields["_BOOT_ID"] = p["boot"]
    /\ ValidLevels(p) # {} =>
          /\ "PRIORITY" \in DOMAIN rec.fields
          /\ Atoi(rec.fields["PRIORITY"]) \in ValidLevels(p)
    /\ "MESSAGE" \in DOMAIN rec.fields
    /\ Len(rec.fields["MESSAGE"]) > 0
    /\ PatternTest(rec.fields["MESSAGE"], Get(p, "pattern", <<>>),
                   Get(p, "case-sensitive", TRUE), Get(p, "regex", FALSE)) = "true"

KeptSet(store, p) == {i \in 1..Len(store) : RecordKept(store[i], p)}

\* the elements of a set of numbers, largest first
RECURSIVE Descending(_)
Descending(S) == IF S = {} THEN <<>> ELSE <<SetMax(S)>> \o Descending(S \ {SetMax(S)})

\* the first n elements of a sequence (all of it when it is shorter)
Take(s, n) == SubSeq(s, 1, Min(n, Len(s)))

\* min(100, limit), limit defaulting to 100
MaxEntriesOf(p) == Min(MAX_LOG_RECORDS, Get(p, "limit", MAX_LOG_RECORDS))

\* the loop ended because the store was exhausted or the limit was reached
RanToEnd(t) == exitBy[t] \in {"exhausted", "limit"}

\* ------------------------------------------------------------------ claims
\* C1: every list a journal Load returns is ordered newest first by store
\* position: of two entries the one at the smaller index is strictly later
\* in the store, whatever the cursor, direction, time and filters were.
NewestFirst(list) ==
    \A i, k \in 1..Len(list) : i < k => list[i]["seq"] > list[k]["seq"]

C1_NewestFirst == \A t \in Procs : JournalDone(t) => NewestFirst(result[t].value)

\* a forward-cursor Load has returned at least two entries
C1_Witness ==
    \E t \in Procs :
        /\ JournalDone(t)
        /\ filter[t].Direction = "Forward"
        /\ Len(result[t].value) >= 2

\* C2 (as stated): every Load returns at most min(100, limit) entries.
C2_AtMostLimit ==
    \A t \in Procs : pc[t] = "done" => Len(result[t].value) <= MaxEntriesOf(params[t])

\* C3: a journal Load result of n entries carries a cursor exactly on its
\* first and last entry when n > 2 and on every entry when n <= 2, each the
\* cursor of its own record; while the scan is still running every entry it
\* has accumulated carries its cursor.
C3_CursorTrimming ==
    \A t \in Procs :
        /\ JournalDone(t) =>
              LET v == result[t].value
              IN \A i \in 1..Len(v) :
                    /\ IsMember(v[i], "cursor") <=> (Len(v) <= 2 \/ i = 1 \/ i = Len(v))
                    /\ IsMember(v[i], "cursor") => v[i]["cursor"] = journal[v[i]["seq"]].cursor
        /\ pc[t] \in {"check", "body"} =>
              \A i \in 1..Len(res[t]) : IsMember(res[t][i], "cursor")

\* a journal Load has returned four entries or more
C3_Witness == \E t \in Procs : JournalDone(t) /\ Len(result[t].value) >= 4

\* C4 (as stated): a journal Load that carries a time and a cursor returns
\* what the same request without the cursor returns, when both run to the
\* end of their loop; stated for a time after the epoch and a cursor id that
\* identifies a stored record.
C4_TimeOverridesCursor ==
    \A t \in Procs :
        (/\ JournalDone(t)
         /\ RanToEnd(t)
         /\ IsMember(params[t], "time")
         /\ IsMember(params[t], "cursor")
         /\ params[t]["time"] > 0
         /\ CursorIndex(journal, Get(params[t]["cursor"], "id", "")) > 0)
        => result[t] = UndisturbedLoad(journal, RemoveMember(params[t], "cursor"))

\* C5: a journal Load with neither cursor nor time that runs to the end of
\* its loop (store exhausted or limit reached) returns the min(100, limit)
\* newest records that pass the filters and the pattern, newest first, or
\* all of them when there are fewer.
C5_TailLoad ==
    \A t \in Procs :
        (/\ JournalDone(t)
         /\ RanToEnd(t)
         /\ ~IsMember(params[t], "time")
         /\ ~IsMember(params[t], "cursor"))
        => Seqs(result[t].value)
             = Take(Descending(KeptSet(journal, params[t])), MaxEntriesOf(params[t]))

\* a tail Load with limit 500 has returned 100 entries of a store that holds
\* more than 100 matching records
C5_Witness ==
    \E t \in Procs :
        /\ JournalDone(t)
        /\ RanToEnd(t)
        /\ ~IsMember(params[t], "time")
        /\ ~IsMember(params[t], "cursor")
        /\ Get(params[t], "limit", 0) > MAX_LOG_RECORDS
        /\ Len(result[t].value) = MAX_LOG_RECORDS
        /\ Cardinality(KeptSet(journal, params[t])) > MAX_LOG_RECORDS

\* C6: a journal Load whose cursor id identifies a stored record and states a
\* direction never returns the pointed record: every returned entry is
\* strictly later in the store for forward, strictly earlier for backward.
C6_PointedRecordExcluded ==
    \A t \in Procs :
        (/\ JournalDone(t)
         /\ IsMember(params[t], "cursor")
         /\ CursorIndex(journal, Get(params[t]["cursor"], "id", "")) > 0
         /\ Get(params[t]["cursor"], "direction", "") \in {"forward", "backward"})
        => LET at == CursorIndex(journal, params[t]["cursor"]["id"])
               v == result[t].value
           IN \A i \in 1..Len(v) :
                 IF params[t]["cursor"]["direction"] = "forward"
                 THEN v[i]["seq"] > at
                 ELSE v[i]["seq"] < at

\* a forward Load from the cursor of the second record has returned two
\* entries or more
C6_Witness ==
    \E t \in Procs :
        /\ JournalDone(t)
        /\ IsMember(params[t], "cursor")
        /\ CursorIndex(journal, Get(params[t]["cursor"], "id", "")) = 2
        /\ Get(params[t]["cursor"], "direction", "") = "forward"
        /\ Len(result[t].value) >= 2

\* C7 (as stated): a journal Load with maxEntries > 0 on a store that holds
\* at least maxEntries records passing its filters and pattern, during which
\* (between its invocation and its end) CancelLoad ran, returns fewer than
\* maxEntries entries.
C7_CancelledReturnsFewer ==
    \A t \in Procs :
        (/\ JournalDone(t)
         /\ cancelInFlight[t]
         /\ MaxEntriesOf(params[t]) > 0
         /\ Cardinality(KeptSet(journal, params[t])) >= MaxEntriesOf(params[t]))
        => Len(result[t].value) < MaxEntriesOf(params[t])

\* C7 (amended): when CancelLoad sets the flag while a journal Load is in its
\* loop with fewer than maxEntries - 1 entries kept, and no Load call resets
\* the flag afterwards, that Load returns fewer than maxEntries entries.
C7_CancelInLoopReturnsFewer ==
    \A t \in Procs :
        (/\ JournalDone(t)
         /\ cancelAt[t] >= 0
         /\ cancelAt[t] + 1 < MaxEntriesOf(params[t]))
        => Len(result[t].value) < MaxEntriesOf(params[t])

\* a Load with enough matching records in the store was cancelled in its
\* loop and has returned fewer than maxEntries entries, at least one
C7_Witness ==
    \E t \in Procs :
        /\ JournalDone(t)
        /\ cancelAt[t] >= 0
        /\ cancelAt[t] + 1 < MaxEntriesOf(params[t])
        /\ exitBy[t] = "cancel"
        /\ Cardinality(KeptSet(journal, params[t])) >= MaxEntriesOf(params[t])
        /\ Len(result[t].value) >= 1

\* C8 (as stated): a Load that CancelLoad found in its loop does not enter
\* the loop body again once it has evaluated the loop condition.
C8_CancelStopsAll ==
    [][\A t \in Procs : cancelDuring[t] => ~(pc[t] = "check" /\ pc'[t] = "body")]_vars

\* C8 (amended): a Load that CancelLoad found in its loop does not enter the
\* loop body again once it has evaluated the loop condition, for every Load
\* that was in its loop, unless a Load call has reset the flag since.
C8_CancelStopsAllUnlessReset ==
    [][\A t \in Procs : cancelAt[t] >= 0 => ~(pc[t] = "check" /\ pc'[t] = "body")]_vars

\* one CancelLoad found two Loads in their loops and both left the loop
\* because of the flag
C8_Witness ==
    \A t \in Procs : JournalDone(t) /\ cancelAt[t] >= 0 /\ exitBy[t] = "cancel"

\* C9: a Load that starts after CancelLoad calls issued while it was not in
\* flight finds the flag false in its loop and, when no CancelLoad runs
\* during it and no step fails, returns what an undisturbed Load returns:
\* it runs until the store is exhausted or the limit is reached.
C9_StaleCancelHasNoEffect ==
    \A t \in Procs :
        /\ (pc[t] \in {"check", "body"} /\ ~cancelDuring[t]) => ~CancelLoading
        /\ (JournalDone(t) /\ ~cancelDuring[t]) => exitBy[t] # "cancel"
        /\ (JournalDone(t) /\ ~cancelDuring[t] /\ exitBy[t] # "failure")
              => result[t] = UndisturbedLoad(journal, params[t])

\* a Load that found the flag set at its start has run to the end of its
\* loop and returned entries
C9_Witness ==
    \E t \in Procs :
        /\ JournalDone(t)
        /\ staleCancel[t]
        /\ ~cancelDuring[t]
        /\ RanToEnd(t)
        /\ Len(result[t].value) >= 2

C11_BadRegexIsError ==
    \A t \in Procs :
        (/\ pc[t] \in {"done", "failed"}
         /\ exitBy[t] # "failure"
         /\ ~cancelInFlight[t]
         /\ Get(params[t], "regex", FALSE)
         /\ Len(Get(params[t], "pattern", <<>>)) > 0
         /\ ~RegexCompiles(params[t]["pattern"]))
        => pc[t] = "failed" /\ result[t].status = "error"

\* the level the claim derives for a record: 3, 4 or 7 from the message
\* prefix, else the raw priority when present and not 6, else -1 for none
DerivedLevel(rec) ==
    LET msg == rec.fields["MESSAGE"]
        Starts(prefix) == Len(msg) >= Len(prefix) /\ SubSeq(msg, 1, Len(prefix)) = prefix
    IN IF Starts(<<"E", "R", "R", "O", "R", ":">>) THEN 3
       ELSE IF Starts(<<"W", "A", "R", "N", "I", "N", "G", ":">>) THEN 4
       ELSE IF Starts(<<"D", "E", "B", "U", "G", ":">>) THEN 7
       ELSE IF "PRIORITY" \in DOMAIN rec.fields /\ Atoi(rec.fields["PRIORITY"]) # 6
       THEN Atoi(rec.fields["PRIORITY"])
       ELSE -1

\* the raw priority of a record is 6
RawPriorityInfo(rec) ==
    "PRIORITY" \in DOMAIN rec.fields /\ rec.fields["PRIORITY"] = <<"6">>

\* C12: the level of every journal entry, returned or accumulated, is the one
\* its message prefix stands for (ERROR: 3, WARNING: 4, DEBUG: 7) whatever the
\* raw priority; without such a prefix it is the raw priority when that is
\* present and not 6; otherwise the entry has no level.  No entry has level 6.
C12_LevelDerivation ==
    \A t \in Procs :
        LET list == IF JournalDone(t) THEN result[t].value ELSE res[t]
        IN \A i \in 1..Len(list) :
              LET lv == DerivedLevel(journal[list[i]["seq"]])
              IN /\ IsMember(list[i], "level") <=> lv # -1
                 /\ IsMember(list[i], "level") => list[i]["level"] = lv /\ lv # 6

\* a Load has returned an entry with level 4 for a record of raw priority 6
\* whose message starts with WARNING:, and an entry without level for a
\* record of raw priority 6 without prefix
C12_Witness ==
    \E t \in Procs :
        /\ JournalDone(t)
        /\ \E i, k \in 1..Len(result[t].value) :
              LET a == result[t].value[i]
                  b == result[t].value[k]
              IN /\ RawPriorityInfo(journal[a["seq"]])
                 /\ a["msg"] = MsgWarning
                 /\ a["level"] = 4
                 /\ RawPriorityInfo(journal[b["seq"]])
                 /\ b["msg"] = MsgPlain
                 /\ ~IsMember(b, "level")

\* the letters of the alphabet, small and capital
SmallLetters ==
    <<"a", "b", "c", "d", "e", "f", "g", "h", "i", "j", "k", "l", "m",
      "n", "o", "p", "q", "r", "s", "t", "u", "v", "w", "x", "y", "z">>
CapitalLetters ==
    <<"A", "B", "C", "D", "E", "F", "G", "H", "I", "J", "K", "L", "M",
      "N", "O", "P", "Q", "R", "S", "T", "U", "V", "W", "X", "Y", "Z">>

\* a text with every small letter replaced by its capital
Capitalised(text) ==
    [i \in 1..Len(text) |->
        IF \E k \in 1..26 : SmallLetters[k] = text[i]
        THEN CapitalLetters[CHOOSE k \in 1..26 : SmallLetters[k] = text[i]]
        ELSE text[i]]

\* pattern is a contiguous part of text
IsPartOf(pattern, text) ==
    \E a \in 1..(Len(text) + 1) :
        /\ a + Len(pattern) - 1 <= Len(text)
        /\ SubSeq(text, a, a + Len(pattern) - 1) = pattern

\* the records of the store a plain-text request p keeps: they pass the
\* service, boot and level filters, have a message, and the message contains
\* the pattern, both brought to a common case unless case-sensitive
PlainTextKept(store, p) ==
    LET pattern == Get(p, "pattern", <<>>)
    IN {i \in KeptSet(store, RemoveMember(p, "pattern")) :
           \/ Len(pattern) = 0
           \/ IF Get(p, "case-sensitive", TRUE)
              THEN IsPartOf(pattern, store[i].fields["MESSAGE"])
              ELSE IsPartOf(Capitalised(pattern), Capitalised(store[i].fields["MESSAGE"]))}

\* C13: a tail Load with regex = false or an empty pattern that runs to the
\* end of its loop returns, newest first and up to its limit, exactly the
\* filtered records whose message contains the pattern as a substring, both
\* case-folded when case-sensitive = false and compared as given otherwise;
\* with an empty pattern every filtered record that has a message, whatever
\* the case-sensitive and regex flags.
C13_SubstringFilter ==
    \A t \in Procs :
        (/\ JournalDone(t)
         /\ RanToEnd(t)
         /\ ~IsMember(params[t], "time")
         /\ ~IsMember(params[t], "cursor")
         /\ Len(Get(params[t], "pattern", <<>>)) = 0 \/ ~Get(params[t], "regex", FALSE))
        => Seqs(result[t].value)
             = Take(Descending(PlainTextKept(journal, params[t])), MaxEntriesOf(params[t]))

\* a Load with pattern "error" and case-sensitive = false has returned the
\* record "ERROR: disk" and the record "disk error"
C13_Witness ==
    \E t \in Procs :
        /\ JournalDone(t)
        /\ RanToEnd(t)
        /\ Get(params[t], "pattern", <<>>) = PatError
        /\ ~Get(params[t], "case-sensitive", TRUE)
        /\ ~Get(params[t], "regex", FALSE)
        /\ \E i, k \in 1..Len(result[t].value) :
              /\ result[t].value[i]["msg"] = MsgError
              /\ result[t].value[k]["msg"] = MsgLower

\* the same entries, as records of the store
SameRecords(a, b) ==
    Len(a) = Len(b) /\ {a[i]["seq"] : i \in 1..Len(a)} = {b[i]["seq"] : i \in 1..Len(b)}

\* C14: when a step of the iteration has failed (r < 0), the Load leaves the
\* loop at once and returns with success a list that holds exactly the
\* entries accumulated before the failure, newest first; it never enters
\* the loop body with a failed step and never ends in an error.
C14_StepFailureReturnsPartial ==
    [][\A t \in Procs :
          (pc[t] = "check" /\ r[t] < 0 /\ pc'[t] # "check")
          => /\ pc'[t] = "done"
             /\ result'[t].status = "ok"
             /\ SameRecords(result'[t].value, res[t])
             /\ NewestFirst(result'[t].value)]_vars

\* a forward Load whose step failed after two entries or more has returned
\* them
C14_Witness ==
    \E t \in Procs :
        /\ JournalDone(t)
        /\ r[t] < 0
        /\ filter[t].Direction = "Forward"
        /\ result[t].status = "ok"
        /\ Len(result[t].value) >= 2

\* C15: a Load whose sd_journal_open or whose seek (by cursor, by time or to
\* the tail) failed is a failed call: its error reaches the caller, it
\* returns no list and it never enters the loop.
C15_SetupFailurePropagates ==
    \A t \in Procs :
        setupFault[t] \in {"open", "seek"}
        => /\ pc[t] = "failed"
           /\ result[t] = [status |-> "error", value |-> <<>>]
           /\ res[t] = <<>>

\* a Load with a cursor has failed in its seek
C15_Witness ==
    \E t \in Procs :
        /\ setupFault[t] = "seek"
        /\ IsMember(params[t], "cursor")
        /\ pc[t] = "failed"
        /\ result[t].status = "error"

\* C16: a handle a Load call has opened is closed before the call returns or
\* throws, on every exit path: no call that is over holds an open handle, an
\* open handle is left only by closing it as the call ends, a closed handle
\* is not closed or opened again by that call, and an open handle is
\* eventually closed.
C16_HandleAlwaysClosed ==
    /\ [](\A t \in Procs : pc[t] \in {"idle", "done", "failed"} => handle[t] # "open")
    /\ [][\A t \in Procs :
            /\ (handle[t] = "open" /\ handle'[t] # "open")
                  => handle'[t] = "closed" /\ pc'[t] \in {"done", "failed"}
            /\ (handle[t] = "closed" /\ handle'[t] # "closed")
                  => handle'[t] = "none" /\ pc'[t] = "idle"]_vars
    /\ \A t \in Procs : (handle[t] = "open") ~> (handle[t] = "closed")

\* a Load whose loop body threw, after entries were accumulated, has closed
\* its handle
C16_Witness ==
    \E t \in Procs :
        /\ pc[t] = "failed"
        /\ setupFault[t] = "none"
        /\ ~IsDmesgRequest(params[t])
        /\ Len(res[t]) >= 1
        /\ handle[t] = "closed"

\* C17 (as stated): List never raises, and when the command it runs fails
\* its response holds boots and services, both empty.
C17_ListFailureIsEmpty ==
    /\ listResult.status # "error"
    /\ listFault = "exec" =>
          /\ IsMember(listResult.value, "boots")
          /\ IsMember(listResult.value, "services")
          /\ Len(listResult.value["boots"].items) = 0
          /\ Len(listResult.value["services"]) = 0

\* the line b of the boot listing was printed to the constructor
InListing(b) == \E k \in 1..Len(bootsOutput) : bootsOutput[k] = BootLineText(b)

\* the cached boot records with the boot id of line b
RecordsOf(b) == {i \in 1..Len(Boots.items) : Boots.items[i]["hash"] = b.hash}

\* the dates of the listing, in seconds since the epoch
EpochOf(d) ==
    CASE d = 1 -> 1617694501
      [] d = 2 -> 1617695055
      [] OTHER -> 1617789600

\* line b has a record with start and end populated from its two dates
HasStartAndEnd(b) ==
    /\ RecordsOf(b) # {}
    /\ \A i \in RecordsOf(b) :
          /\ Boots.items[i]["start"] = EpochOf(b.start)
          /\ IsMember(Boots.items[i], "end")
          /\ Boots.items[i]["end"] = EpochOf(b.end)

\* line b has a record with start populated from its first date and no end
HasStartOnly(b) ==
    /\ RecordsOf(b) # {}
    /\ \A i \in RecordsOf(b) :
          /\ Boots.items[i]["start"] = EpochOf(b.start)
          /\ ~IsMember(Boots.items[i], "end")

\* C18 (as stated): the record of the line with boot index -1 has no end;
\* the record of a line with another index and both dates has start and end.
C18_MinusOneHasNoEnd ==
    \A b \in BootLines :
        InListing(b) =>
            /\ b.idx = -1 => \A i \in RecordsOf(b) : ~IsMember(Boots.items[i], "end")
            /\ (b.idx # -1 /\ b.end > 0) => HasStartAndEnd(b)

\* C18 (amended): the record of the line with boot index 0, the current boot,
\* has start and no end, also when the line carries both dates; the record
\* of a line with another index and both dates has start and end.
C18_CurrentBootHasNoEnd ==
    \A b \in BootLines :
        InListing(b) =>
            /\ b.idx = 0 => HasStartOnly(b)
            /\ (b.idx # 0 /\ b.end > 0) => HasStartAndEnd(b)

\* the gateway caches a record without end for the line of index 0, which
\* carries both dates, and a record with both for the line of index -1
C18_Witness ==
    \E a, b \in BootLines :
        /\ a.idx = 0 /\ a.end > 0 /\ InListing(a) /\ HasStartOnly(a)
        /\ b.idx = -1 /\ b.end > 0 /\ InListing(b) /\ HasStartAndEnd(b)

\* a Load of the kernel ring buffer that has returned a list
DmesgDone(t) == pc[t] = "done" /\ IsDmesgRequest(params[t])

\* what line k of the ring buffer stands for: "[ 1.5] usb" is "usb" 1500 ms
\* after boot, "[2]disk" is "disk" 2000 ms after boot, "ERROR: x" has no time
ExpectedDmesgEntry(k) ==
    CASE k % 3 = 1 -> [time |-> BootTime + 1500, msg |-> <<"u", "s", "b">>]
      [] k % 3 = 2 -> [time |-> BootTime + 2000, msg |-> <<"d", "i", "s", "k">>]
      [] OTHER -> [msg |-> <<"E", "R", "R", "O", "R", ":", " ", "x">>]

\* the lines of the ring buffer whose message passes the pattern of request p
DmesgKept(p) ==
    {k \in 1..Len(dmesg) :
        PatternTest(ExpectedDmesgEntry(k).msg, Get(p, "pattern", <<>>),
                    Get(p, "case-sensitive", TRUE), Get(p, "regex", FALSE)) = "true"}

\* the elements of a set of numbers, smallest first
RECURSIVE Ascending(_)
Ascending(S) == IF S = {} THEN <<>> ELSE <<SetMin(S)>> \o Ascending(S \ {SetMin(S)})

C20_DmesgEntryFields ==
    \A t \in Procs :
        DmesgDone(t) =>
            \A i \in 1..Len(result[t].value) :
                LET e == result[t].value[i]
                IN /\ IsMember(e, "msg")
                   /\ DOMAIN e \subseteq {"msg", "time"}
                   /\ \E k \in 1..Len(dmesg) :
                         /\ e = ExpectedDmesgEntry(k)
                         /\ IsMember(e, "time") <=> dmesg[k][1] = "["

\* a ring-buffer Load has returned an entry with time for a line that starts
\* with "[" and an entry without time for a line "ERROR: x", without level
C20_Witness ==
    \E t \in Procs :
        /\ DmesgDone(t)
        /\ \E i, k \in 1..Len(result[t].value) :
              /\ result[t].value[i] = [time |-> BootTime + 1500, msg |-> <<"u", "s", "b">>]
              /\ DOMAIN result[t].value[k] = {"msg"}
              /\ StringStartsWith(result[t].value[k]["msg"], <<"E", "R", "R", "O", "R", ":">>)

\* C21: an entry of a journal Load has a service member exactly when the
\* request pinned no service (absent or empty) and the record has a unit
\* name; the member is the unit name without a trailing ".service".  When
\* the request pins a service no entry has the member.
WithoutServiceSuffix(unit) ==
    IF Len(unit) >= 8 /\ SubSeq(unit, Len(unit) - 7, Len(unit)) = SERVICE_SUFFIX
    THEN SubSeq(unit, 1, Len(unit) - 8)
    ELSE unit

PinsService(p) == Len(Get(p, "service", <<>>)) > 0

C21_ServiceField ==
    \A t \in Procs : JournalDone(t) =>
        \A k \in 1..Len(result[t].value) :
            LET e == result[t].value[k]
                rec == journal[e["seq"]]
            IN IF PinsService(params[t]) \/ "_SYSTEMD_UNIT" \notin DOMAIN rec.fields
               THEN ~IsMember(e, "service")
               ELSE /\ IsMember(e, "service")
                    /\ e["service"] = WithoutServiceSuffix(rec.fields["_SYSTEMD_UNIT"])

\* a Load whose request has an empty service returned the entry of a
\* ".service" unit under its bare name and the entry of a mount unit under
\* its full name
C21_Witness ==
    \E t \in Procs :
        /\ JournalDone(t)
        /\ IsMember(params[t], "service") /\ ~PinsService(params[t])
        /\ \E k \in 1..Len(result[t].value) : Get(result[t].value[k], "service", <<>>) = <<"a">>
        /\ \E k \in 1..Len(result[t].value) : Get(result[t].value[k], "service", <<>>) = UnitMount
\* C22: a visited record that fails the pattern or has no message does not
\* count toward the limit.  On a static store a scan that ran to its end
\* returns exactly the first min(100, limit) records that pass the pattern,
\* in scan direction from the seek position, newest first, however many
\* other records lie between them.
\* record rec passes the service, boot and level clauses of request p
PassesClauses(rec, p) ==
    /\ Len(Get(p, "service", <<>>)) > 0 =>
          /\ "_SYSTEMD_UNIT" \in DOMAIN rec.fields
          /\ rec.fields["_SYSTEMD_UNIT"] = p["service"]
    /\ Len(Get(p, "boot", <<>>)) > 0 =>
          /\ "_BOOT_ID" \in DOMAIN rec.fields
          /\ rec.fields["_BOOT_ID"] = p["boot"]
    /\ ValidLevels(p) # {} =>
          /\ "PRIORITY" \in DOMAIN rec.fields
          /\ Atoi(rec.fields["PRIORITY"]) \in ValidLevels(p)

CursorIdOf(p) == IF IsMember(p, "cursor") THEN Get(p["cursor"], "id", "") ELSE ""

DirectionOf(p) == IF IsMember(p, "cursor") THEN Get(p["cursor"], "direction", "") ELSE ""

\* the records the scan of request p visits when nothing stops it
VisitedSet(store, p) ==
    LET pass == {i \in 1..Len(store) : PassesClauses(store[i], p)}
        c == CursorIndex(store, CursorIdOf(p))
        onward == {i \in pass : i >= c}
        back == {i \in pass : i <= c}
    IN IF CursorIdOf(p) # ""
       THEN CASE DirectionOf(p) = "forward" ->
                     IF onward = {} THEN {} ELSE onward \ {SetMin(onward)}
              [] DirectionOf(p) = "backward" ->
                     IF back = {} THEN {} ELSE back \ {SetMax(back)}
              [] OTHER -> back
       ELSE IF IsMember(p, "time") /\ p["time"] > 0
       THEN {i \in pass : IF DirectionOf(p) = "forward"
                           THEN store[i].realtime >= p["time"] * 1000000
                           ELSE store[i].realtime <= p["time"] * 1000000}
       ELSE IF DirectionOf(p) = "forward" THEN {} ELSE pass

\* the message of the record passes the pattern of the request
PassesPattern(rec, p) ==
    /\ "MESSAGE" \in DOMAIN rec.fields
    /\ Len(rec.fields["MESSAGE"]) > 0
    /\ PatternTest(rec.fields["MESSAGE"], Get(p, "pattern", <<>>),
                   Get(p, "case-sensitive", TRUE), Get(p, "regex", FALSE)) = "true"

\* the positions of the first min(100, limit) visited records that pass the
\* pattern, met in scan direction, listed newest first
FirstMatching(store, p) ==
    LET hits == {i \in VisitedSet(store, p) : PassesPattern(store[i], p)}
    IN IF DirectionOf(p) = "forward"
       THEN Reverse(Take(Ascending(hits), MaxEntriesOf(p)))
       ELSE Take(Descending(hits), MaxEntriesOf(p))

C22_SkippedDoNotCount ==
    \A t \in Procs : JournalDone(t) /\ RanToEnd(t) =>
        Seqs(result[t].value) = FirstMatching(journal, params[t])

\* a Load with a pattern and the limit 2 returned two entries with a record
\* that does not pass the pattern between them
C22_Witness ==
    \E t \in Procs :
        /\ JournalDone(t) /\ exitBy[t] = "limit"
        /\ Len(Get(params[t], "pattern", <<>>)) > 0
        /\ Get(params[t], "limit", 100) = 2
        /\ Len(result[t].value) = 2
        /\ \E i \in 1..Len(journal) :
              /\ result[t].value[2]["seq"] < i /\ i < result[t].value[1]["seq"]
              /\ ~PassesPattern(journal[i], params[t])
\* C23: a Load whose request carries a time and no cursor is positioned by
\* that time, never at the tail, whatever the time value (0 and negative
\* values included): scanning backward from there it returns no entry later
\* than the time of the request.
C23_TimePositionsScan ==
    \A t \in Procs :
        /\ JournalDone(t) /\ RanToEnd(t)
        /\ IsMember(params[t], "time") /\ ~IsMember(params[t], "cursor")
        => \A k \in 1..Len(result[t].value) :
               result[t].value[k]["time"] <= params[t]["time"] * 1000
\* C24: on a finite store every journal scan terminates, and when the loop
\* ends because the step found no more records, because min(100, limit)
\* entries were kept or because the cancel flag was seen set, Load returns
\* the entries accumulated so far as a normal result, not an error.
C24_ScanTerminates ==
    /\ \A t \in Procs : (pc[t] \in {"check", "body"}) ~> (pc[t] \in {"done", "failed"})
    /\ [](\A t \in Procs :
            JournalDone(t) /\ exitBy[t] \in {"exhausted", "limit", "cancel"} =>
                /\ result[t].status = "ok"
                /\ Seqs(result[t].value) = Seqs(FinalOrder(filter[t], res[t]))
                /\ exitBy[t] = "exhausted" => r[t] = 0
                /\ exitBy[t] = "limit" => Len(res[t]) = MaxEntriesOf(params[t])
                /\ exitBy[t] = "cancel" => CancelLoading)

\* a scan that had kept an entry left the loop on the cancel flag
C24_Witness ==
    \E t \in Procs :
        /\ JournalDone(t) /\ exitBy[t] = "cancel"
        /\ Len(res[t]) >= 1 /\ Len(result[t].value) = Len(res[t])
        /\ r[t] > 0 /\ filter[t].MaxEntries > 0
\* C25: a line of the boot listing that is not well formed is skipped and
\* does not end the listing; the boots the constructor caches are exactly
\* the records of the well-formed lines, in the reverse of the order of the
\* listing (most recent first).
\* a line is well formed when it has an index, a boot id, the start date and,
\* unless its index is 0, the dash and the end date
WellFormedLine(line) ==
    \E b \in BootLines : BootLineText(b) = line /\ (b.idx = 0 \/ b.end > 0)

DescriptorOf(line) == CHOOSE b \in BootLines : BootLineText(b) = line

ExpectedBootRecord(line) ==
    LET b == DescriptorOf(line)
    IN IF b.idx = 0
       THEN ("hash" :> b.hash) @@ ("start" :> EpochOf(b.start))
       ELSE ("hash" :> b.hash) @@ ("start" :> EpochOf(b.start)) @@ ("end" :> EpochOf(b.end))

ExpectedBoots(output) ==
    LET good == SelectSeq(Reverse(output), WellFormedLine)
    IN [i \in 1..Len(good) |-> ExpectedBootRecord(good[i])]

C25_BadBootLineSkipped ==
    gateway = "serving" =>
        /\ Boots.items = ExpectedBoots(bootsOutput)
        /\ Boots.isNull = (Len(ExpectedBoots(bootsOutput)) = 0)

\* the constructor read a listing of three lines, the middle one not well
\* formed, and cached the records of the other two, the last line first
C25_Witness ==
    /\ gateway = "serving"
    /\ Len(bootsOutput) = 3
    /\ WellFormedLine(bootsOutput[1]) /\ ~WellFormedLine(bootsOutput[2])
    /\ WellFormedLine(bootsOutput[3])
    /\ Len(Boots.items) = 2
    /\ Boots.items[1] = ExpectedBootRecord(bootsOutput[3])
    /\ Boots.items[2] = ExpectedBootRecord(bootsOutput[1])
\* C26: Load calls that run at the same time share nothing but the cancel
\* flag: on a static store, a Load during which no CancelLoad ran returns,
\* in every interleaving with another Load, the list it returns when it
\* runs alone.
C26_ConcurrentLoadsIndependent ==
    \A t \in Procs :
        (pc[t] = "done" /\ ~cancelInFlight[t]) =>
            result[t] = UndisturbedLoad(journal, params[t])

\* a Load has returned two entries while the Load of the other thread, with
\* another request, is in its loop with an entry kept; no CancelLoad ran
C26_Witness ==
    \E t, u \in Procs :
        /\ t # u
        /\ pc[t] = "done" /\ ~cancelInFlight[t] /\ ~CancelLoading
        /\ Len(result[t].value) >= 2
        /\ pc[u] = "body" /\ handle[u] = "open" /\ Len(res[u]) >= 1
        /\ params[u] # params[t]
\* the store positions of the entries of the first k pages, in the order
\* received
RECURSIVE PagesConcat(_)
PagesConcat(k) == IF k = 0 THEN <<>> ELSE PagesConcat(k - 1) \o Seqs(pages[k])

\* the caller has received an empty page
PaginationDone == Len(pages) >= 1 /\ Len(pages[Len(pages)]) = 0

IsPrefix(a, b) == Len(a) <= Len(b) /\ SubSeq(b, 1, Len(a)) = a

\* all the records that pass the filter, newest first, each once
AllMatching(base) == Descending(KeptSet(journal, base))

\* C27 (as stated): on a static store and with a fixed filter, a tail Load
\* followed by backward Loads from the cursor of the last entry of the
\* previous page, until a page is empty, yields pages whose concatenation is
\* the sequence of all matching records, newest first, each once.
C27_BackwardPagination ==
    (client.mode = "backward" /\ PaginationDone) =>
        PagesConcat(Len(pages)) = AllMatching(client.base)

\* C27 (amended): the same for a filter whose limit is at least 1 (or
\* absent); with such a filter the pages received so far are at every
\* moment a gap-free and duplicate-free beginning of that sequence.
C27_BackwardPaginationPositiveLimit ==
    (client.mode = "backward" /\ Get(client.base, "limit", MAX_LOG_RECORDS) >= 1) =>
        /\ IsPrefix(PagesConcat(Len(pages)), AllMatching(client.base))
        /\ PaginationDone => PagesConcat(Len(pages)) = AllMatching(client.base)

\* the caller paged with the limit 2 through a store in which records that
\* do not pass the filter lie between those that do and received two pages
\* with entries and the empty page
C27_Witness ==
    /\ client.mode = "backward" /\ PaginationDone
    /\ Get(client.base, "limit", MAX_LOG_RECORDS) = 2
    /\ Len(pages) = 3
    /\ Len(pages[1]) = 2 /\ Len(pages[2]) >= 1
    /\ PagesConcat(3) = AllMatching(client.base)
    /\ Cardinality(KeptSet(journal, client.base)) < Len(journal) - 1

\* C28: on a static store and with a fixed filter, if P1 is a tail Load and
\* P2 the backward Load from the cursor of the last entry of P1, the forward
\* Load from the cursor of the first entry of P2 with limit |P1| returns the
\* entries of P1 in the same order; a forward page holds the matching
\* records nearest to its cursor, newest first, not the newest of the store.
NearestAfter(base, c, n) ==
    Reverse(Take(Ascending({i \in KeptSet(journal, base) : i > c}), Min(MAX_LOG_RECORDS, n)))

C28_ForwardBackwardRoundTrip ==
    client.mode = "roundtrip" =>
        /\ Len(pages) >= 3 =>
              /\ pages[3] = pages[1]
              /\ Seqs(pages[3]) = NearestAfter(client.base, pages[2][1]["seq"], Len(pages[1]))
        /\ Len(pages) >= 4 =>
              Seqs(pages[4]) =
                  NearestAfter(client.base, pages[2][Len(pages[2])]["seq"], Len(pages[1]))

\* the forward page from the first entry of P2 is P1, and the forward page
\* from the last entry of P2, as long as P1, is not P1: it holds older
\* records
C28_Witness ==
    /\ client.mode = "roundtrip"
    /\ Len(pages) = 4
    /\ Len(pages[1]) >= 2 /\ Len(pages[2]) >= 2
    /\ pages[3] = pages[1]
    /\ Len(pages[4]) = Len(pages[1])
    /\ pages[4][1]["seq"] < pages[1][1]["seq"]
\* C29: once CancelLoad has set the flag while the journal Load is scanning,
\* and no Load starts afterwards, the scan appends at most one further entry
\* and makes at most one further step: the pass of the loop body it may be
\* in is the last one, and the next evaluation of the loop condition leaves
\* the loop without a step.
C29_BoundedCancelResponse ==
    /\ [](\A t \in Procs : cancelAt[t] >= 0 => Len(res[t]) <= cancelAt[t] + 1)
    /\ [][\A t \in Procs :
            (cancelAt[t] >= 0 /\ pc[t] = "check") =>
                /\ pc'[t] \in {"check", "done"}
                /\ j'[t] = j[t]
                /\ res'[t] = res[t]]_vars

\* CancelLoad found the scan in its loop body; the scan kept the entry of
\* that pass, made its step onto a further record and left the loop on the
\* flag
C29_Witness ==
    \E t \in Procs :
        /\ JournalDone(t) /\ exitBy[t] = "cancel"
        /\ cancelAt[t] >= 0
        /\ Len(res[t]) = cancelAt[t] + 1
        /\ r[t] > 0 /\ filter[t].MaxEntries > 0
\* the raw priority of a record, -1 when it has none
RawPriority(rec) ==
    IF "PRIORITY" \in DOMAIN rec.fields THEN Atoi(rec.fields["PRIORITY"]) ELSE -1

\* a Load from the tail that ended because the store was exhausted: every
\* record the request selects is in its list
CompleteTailLoad(t) ==
    /\ JournalDone(t) /\ exitBy[t] = "exhausted"
    /\ ~IsMember(params[t], "cursor") /\ ~IsMember(params[t], "time")

\* record i passes the service and boot clauses and the pattern of request p
PassesAllButLevels(i, p) ==
    /\ PassesClauses(journal[i], [k \in (DOMAIN p) \ {"levels"} |-> p[k]])
    /\ PassesPattern(journal[i], p)

Returned(t, i) == \E k \in 1..Len(result[t].value) : result[t].value[k]["seq"] = i

\* C30 (as stated): for a journal Load with a non-empty set of valid levels,
\* the level of every returned entry that has one belongs to the set, and
\* every stored record whose derived level (prefix first, then raw priority)
\* belongs to the set is returned by a Load that runs through the store.
C30_LevelsSelectDerivedLevel ==
    \A t \in Procs :
        (JournalDone(t) /\ ValidLevels(params[t]) # {}) =>
            /\ \A k \in 1..Len(result[t].value) :
                   IsMember(result[t].value[k], "level") =>
                       result[t].value[k]["level"] \in ValidLevels(params[t])
            /\ CompleteTailLoad(t) =>
                   \A i \in 1..Len(journal) :
                       (/\ PassesAllButLevels(i, params[t])
                        /\ DerivedLevel(journal[i]) \in ValidLevels(params[t]))
                       => Returned(t, i)

\* C30 (amended): the set selects records by their raw priority: every
\* returned entry is of a record whose raw priority belongs to the set, and
\* every stored record whose raw priority belongs to the set is returned by
\* a Load that runs through the store.  The level of a returned entry is the
\* derived one and either belongs to the set or comes from the message
\* prefix.
C30_LevelsSelectRawPriority ==
    \A t \in Procs :
        (JournalDone(t) /\ ValidLevels(params[t]) # {}) =>
            /\ \A k \in 1..Len(result[t].value) :
                   LET e == result[t].value[k]
                       rec == journal[e["seq"]]
                   IN /\ RawPriority(rec) \in ValidLevels(params[t])
                      /\ IsMember(e, "level") =>
                             \/ e["level"] \in ValidLevels(params[t])
                             \/ /\ e["level"] = DerivedLevel(rec)
                                /\ e["level"] # RawPriority(rec)
            /\ CompleteTailLoad(t) =>
                   \A i \in 1..Len(journal) :
                       (/\ PassesAllButLevels(i, params[t])
                        /\ RawPriority(journal[i]) \in ValidLevels(params[t]))
                       => Returned(t, i)

\* a Load with the levels 4 and 6 ran through the store and returned the
\* record of raw priority 6 whose message starts with ERROR:, with level 3,
\* and the record of raw priority 4
C30_Witness ==
    \E t \in Procs :
        /\ CompleteTailLoad(t)
        /\ ValidLevels(params[t]) = {4, 6}
        /\ \E k \in 1..Len(result[t].value) :
              /\ Get(result[t].value[k], "level", -1) = 3
              /\ RawPriority(journal[result[t].value[k]["seq"]]) = 6
        /\ \E k \in 1..Len(result[t].value) :
              /\ RawPriority(journal[result[t].value[k]["seq"]]) = 4
              /\ Get(result[t].value[k], "level", -1) = 4

\* the record the scan of thread t is at has a message, and the request
\* asks to match it against a regular expression that does not compile
BadPatternMet(t) ==
    /\ j[t].loc.type = "entry"
    /\ "MESSAGE" \in DOMAIN journal[j[t].loc.at].fields
    /\ Len(journal[j[t].loc.at].fields["MESSAGE"]) > 0
    /\ Len(Get(params[t], "pattern", <<>>)) > 0
    /\ Get(params[t], "regex", FALSE)
    /\ ~RegexCompiles(Get(params[t], "pattern", <<>>))

\* C31: when reading the timestamp or the cursor token of a matched record
\* has failed, or matching the pattern raised an error, the Load is a failed
\* call whose error reaches the caller with no list at all, whatever it had
\* accumulated; a failed call never carries a list, and a Load that comes
\* back with a list after a fault of its scan is one whose step failed.
C31_ReadFailureAbortsLoad ==
    /\ [](\A t \in Procs :
            /\ readFault[t] # "none"
                  => /\ pc[t] = "failed"
                     /\ result[t] = [status |-> "error", value |-> <<>>]
            /\ pc[t] = "failed"
                  => result[t].status = "error" /\ result[t].value = <<>>)
    /\ [][\A t \in Procs :
            (pc[t] = "body" /\ pc'[t] # "body") =>
                /\ BadPatternMet(t) =>
                      /\ pc'[t] = "failed"
                      /\ result'[t] = [status |-> "error", value |-> <<>>]
                /\ pc'[t] = "failed" => res'[t] = res[t] /\ r'[t] > 0
                /\ pc'[t] # "failed" => pc'[t] = "check" /\ result'[t] = result[t]]_vars

\* reading the cursor token of a matched record failed after two entries or
\* more were accumulated: the Load has failed and returns none of them
C31_Witness ==
    \E t \in Procs :
        /\ readFault[t] = "cursor"
        /\ Len(res[t]) >= 2
        /\ pc[t] = "failed"
        /\ result[t] = [status |-> "error", value |-> <<>>]

\* reading the timestamp of a matched record failed after an entry was
\* accumulated
C31_WitnessTimestamp ==
    \E t \in Procs :
        /\ readFault[t] = "timestamp"
        /\ Len(res[t]) >= 1
        /\ pc[t] = "failed"

\* a regular expression that does not compile was met at a record with a
\* message
C31_WitnessPattern ==
    \E t \in Procs :
        /\ BadPatternMet(t)
        /\ readFault[t] = "none"
        /\ pc[t] = "failed"
        /\ setupFault[t] = "none"
====
